---- MODULE Spec2Model ----
(***************************************************************************)
(* Model of the payroll reconciliation pipeline of DemPagtoContare:        *)
(*   - _post_process_eventos (src/src/parsing_recibo.py), the event        *)
(*     classifier and reconciler;                                          *)
(*   - find_colaborador_ref and _score_name (src/src/matching.py), the     *)
(*     name matcher;                                                       *)
(*   - the complement calculation and the processing script of src/app.py. *)
(* Money is counted in cents (integers); an optional value (Python None or *)
(* a value) is the empty sequence or a one-element sequence; a string      *)
(* whose characters matter is a sequence of one-character strings.         *)
(***************************************************************************)
EXTENDS Integers, Sequences, FiniteSets, TLC

\* ------------------------------------------------------------------ bounds
MaxEvents == 2
MaxAmt == 2
MaxTotal == 3

\* ------------------------------------------------------- optional values
None == <<>>
Some(v) == <<v>>
IsNone(x) == x = <<>>
NotNone(x) == x # <<>>
Val(x) == x[1]
\* Python's `x or 0` on an optional number
OrZero(x) == IF x = <<>> THEN 0 ELSE x[1]
Abs(n) == IF n < 0 THEN -n ELSE n
Opt(S) == {<<>>} \cup {<<v>> : v \in S}

\* ------------------------------------------------------------ characters
LowerCase == <<"a","b","c","d","e","f","g","h","i","j","k","l","m",
               "n","o","p","q","r","s","t","u","v","w","x","y","z">>
UpperCase == <<"A","B","C","D","E","F","G","H","I","J","K","L","M",
               "N","O","P","Q","R","S","T","U","V","W","X","Y","Z">>
\* str.upper() on one character
UpperChar(c) ==
    IF \E i \in 1..26 : LowerCase[i] = c
    THEN UpperCase[CHOOSE i \in 1..26 : LowerCase[i] = c]
    ELSE c
\* str.upper()
upper(s) == [i \in 1..Len(s) |-> UpperChar(s[i])]
\* Python's `k in s` on strings
IsSubstr(k, s) == \E i \in 0..(Len(s) - Len(k)) : SubSeq(s, i + 1, i + Len(k)) = k
\* str.strip()
RECURSIVE lstrip(_)
lstrip(s) == IF s # <<>> /\ s[1] = " " THEN lstrip(Tail(s)) ELSE s
RECURSIVE rstrip(_)
rstrip(s) == IF s # <<>> /\ s[Len(s)] = " " THEN rstrip(SubSeq(s, 1, Len(s) - 1)) ELSE s
strip(s) == rstrip(lstrip(s))

\* ------------------------------------------- CODE_HINT / DISCOUNT_KEYWORDS
HintP == {"8781", "8786", "250", "854", "150", "687", "25", "940", "995",
          "8112", "8189", "990"}
HintD == {"8808", "991", "240", "998", "821", "981", "686", "8069", "681", "255"}
\* CODE_HINT.get(codigo): "P", "D" or "" (no hint)
CODE_HINT(codigo) ==
    IF codigo \in HintP THEN "P" ELSE IF codigo \in HintD THEN "D" ELSE ""

DISCOUNT_KEYWORDS ==
    { <<"I","N","S","S">>, <<"I",".","N",".","S",".","S">>, <<"D","E","S","C">>,
      <<"D","E","S","C","O","N","T","O">>, <<"A","T","R","A","S">>,
      <<"F","A","L","T","A">>, <<"M","U","L","T","A">>, <<"P","E","N","A","L">>,
      <<"R","E","S","S","A","R","C">>, <<"P","R","E","J","U","I">>,
      <<"A","D","I","A","N","T">>, <<"V","A","L","E">>,
      <<"P","R","O","C","E","S","S","O">> }

\* any(k in desc_up for k in discount_keywords)
HasKeyword(desc_up) == \E k \in DISCOUNT_KEYWORDS : IsSubstr(k, desc_up)

is_discount(codigo, desc_up) ==
    IF CODE_HINT(codigo) = "D" THEN TRUE
    ELSE IF CODE_HINT(codigo) = "P" THEN FALSE
    ELSE HasKeyword(desc_up)

\* -------------------------------------------------- _post_process_eventos
\* Step 1 without the move of a lone deduction amount to the earning column
\* for a code forced to earning.
ClassifyEvent_no_move_to_earning(e) ==
    LET codigo == e.codigo
        desc_up == upper(strip(e.descricao))
        p0 == e.provento
        d0 == e.desconto
        mv1 == NotNone(p0) /\ IsNone(d0) /\ is_discount(codigo, desc_up)
        p1 == IF mv1 THEN None ELSE p0
        d1 == IF mv1 THEN p0 ELSE d0
        drop == NotNone(p1) /\ NotNone(d1) /\ is_discount(codigo, desc_up)
        p3 == IF drop THEN None ELSE p1
        p4 == IF p3 = Some(0) THEN None ELSE p3
        d4 == IF d1 = Some(0) THEN None ELSE d1
    IN  [e EXCEPT !.provento = p4, !.desconto = d4]

\* One iteration of the step-1 loop: the event's amounts after forced
\* classification and zero normalisation.
ClassifyEvent(e) ==
    LET codigo == e.codigo
        desc_up == upper(strip(e.descricao))
        p0 == e.provento
        d0 == e.desconto
        mv1 == NotNone(p0) /\ IsNone(d0) /\ is_discount(codigo, desc_up)
        p1 == IF mv1 THEN None ELSE p0
        d1 == IF mv1 THEN p0 ELSE d0
        mv2 == NotNone(d1) /\ IsNone(p1) /\ CODE_HINT(codigo) = "P"
        p2 == IF mv2 THEN d1 ELSE p1
        d2 == IF mv2 THEN None ELSE d1
        drop == NotNone(p2) /\ NotNone(d2) /\ is_discount(codigo, desc_up)
        p3 == IF drop THEN None ELSE p2
        p4 == IF p3 = Some(0) THEN None ELSE p3
        d4 == IF d2 = Some(0) THEN None ELSE d2
    IN  [e EXCEPT !.provento = p4, !.desconto = d4]

\* The test that appends an index to ambiguous_idx without the look at the
\* keywords of the description.
IsAmbiguous_ignores_keywords(e) ==
    /\ NotNone(e.provento) # NotNone(e.desconto)
    /\ CODE_HINT(e.codigo) = ""

\* The test that appends an index to ambiguous_idx.
IsAmbiguous(e) ==
    /\ NotNone(e.provento) # NotNone(e.desconto)
    /\ CODE_HINT(e.codigo) = ""
    /\ ~HasKeyword(upper(strip(e.descricao)))

ForcedClassification(evs) == [i \in 1..Len(evs) |-> ClassifyEvent(evs[i])]

RECURSIVE AmbiguousFrom(_, _)
AmbiguousFrom(cl, i) ==
    IF i > Len(cl) THEN <<>>
    ELSE (IF IsAmbiguous(cl[i]) THEN <<i>> ELSE <<>>) \o AmbiguousFrom(cl, i + 1)
AmbiguousIdx(cl) == AmbiguousFrom(cl, 1)

RECURSIVE SumProvento(_)
SumProvento(evs) ==
    IF evs = <<>> THEN 0 ELSE OrZero(evs[1].provento) + SumProvento(Tail(evs))
RECURSIVE SumDesconto(_)
SumDesconto(evs) ==
    IF evs = <<>> THEN 0 ELSE OrZero(evs[1].desconto) + SumDesconto(Tail(evs))

\* objective(sv, sd) of the closure, with the declared totals made explicit
objective(tv, td, s_v, s_d) ==
    (IF NotNone(tv) THEN Abs(Val(tv) - s_v) ELSE 0)
  + (IF NotNone(td) THEN Abs(Val(td) - s_d) ELSE 0)

\* A flip accepted whenever it does not worsen the objective.
AcceptsNotWorse(cand, bst) == cand <= bst

\* A flip accepted on any decrease of the objective, without the margin.
AcceptsWithoutMargin(cand, bst) == cand < bst

\* A flip accepted when it worsens the objective (comparison reversed).
AcceptsReversed(cand, bst) == bst + 1 < cand

\* The acceptance test of a flip: cand + 0.01 < best, in cents.
Accepts(cand, bst) == cand + 1 < bst

\* One full `for idx in ambiguous_idx` pass, from position k of ambiguous_idx.
\* st = [out, sv, sd, best, improved]
RECURSIVE PassFrom(_, _, _, _, _)
PassFrom(amb, k, tv, td, st) ==
    IF k > Len(amb) THEN st
    ELSE
      LET idx == amb[k]
          e == st.out[idx]
          pv == e.provento
          dc == e.desconto
      IN  IF NotNone(pv) /\ IsNone(dc) THEN
            LET cand_sv == st.sv - Val(pv)
                cand_sd == st.sd + Val(pv)
                cand == objective(tv, td, cand_sv, cand_sd)
            IN  IF Accepts(cand, st.best)
                THEN PassFrom(amb, k + 1, tv, td,
                       [out |-> [st.out EXCEPT ![idx] =
                                   [e EXCEPT !.provento = None, !.desconto = pv]],
                        sv |-> cand_sv, sd |-> cand_sd, best |-> cand,
                        improved |-> TRUE])
                ELSE PassFrom(amb, k + 1, tv, td, st)
          ELSE IF NotNone(dc) /\ IsNone(pv) THEN
            LET cand_sv == st.sv + Val(dc)
                cand_sd == st.sd - Val(dc)
                cand == objective(tv, td, cand_sv, cand_sd)
            IN  IF Accepts(cand, st.best)
                THEN PassFrom(amb, k + 1, tv, td,
                       [out |-> [st.out EXCEPT ![idx] =
                                   [e EXCEPT !.provento = dc, !.desconto = None]],
                        sv |-> cand_sv, sd |-> cand_sd, best |-> cand,
                        improved |-> TRUE])
                ELSE PassFrom(amb, k + 1, tv, td, st)
          ELSE PassFrom(amb, k + 1, tv, td, st)

\* ------------------------------------------------------------ matching.py
\* A score is an exact fraction <<n, d>> in lowest terms (the code's floats
\* 0.88 * jacc + 0.12 and the thresholds are compared exactly).
RECURSIVE GCD(_, _)
GCD(a, b) == IF b = 0 THEN a ELSE GCD(b, a % b)
Rat(n, d) == LET g == GCD(n, d) IN <<n \div g, d \div g>>
RatLt(x, y) == x[1] * y[2] < y[1] * x[2]
RatMin(x, y) == IF RatLt(y, x) THEN y ELSE x
RatMax(x, y) == IF RatLt(x, y) THEN y ELSE x

Digit == {"0","1","2","3","4","5","6","7","8","9"}
Letter == {LowerCase[i] : i \in 1..26} \cup {UpperCase[i] : i \in 1..26}

RECURSIVE Filter(_, _)
Filter(s, S) ==
    IF s = <<>> THEN <<>>
    ELSE (IF s[1] \in S THEN <<s[1]>> ELSE <<>>) \o Filter(Tail(s), S)

\* _digits: "" for None or "", else the digits of the string (s is optional)
digits(s) == IF IsNone(s) THEN <<>> ELSE Filter(Val(s), Digit)

\* NFKD decomposition followed by the removal of combining marks
Deaccent(c) ==
    CASE c = "é" -> "e"
      [] c = "ã" -> "a"
      [] c = "Ç" -> "C"
      [] OTHER -> c
\* re.sub(r"[^A-Za-z0-9 ]+", " ", s), character by character (a run of
\* several characters leaves several spaces, collapsed by the next step)
Blank(c) == IF c \in Letter \cup Digit \cup {" "} THEN c ELSE " "
\* re.sub(r"\s+", " ", s)
RECURSIVE Collapse(_)
Collapse(s) ==
    IF Len(s) < 2 THEN s
    ELSE IF s[1] = " " /\ s[2] = " " THEN Collapse(Tail(s))
    ELSE <<s[1]>> \o Collapse(Tail(s))

\* _norm_nome stripping the string before the other characters are replaced.
norm_nome_strip_first(s) ==
    IF IsNone(s) \/ s = Some(<<>>) THEN <<>>
    ELSE LET raw == strip(Val(s))
             plain == [i \in 1..Len(raw) |-> Blank(Deaccent(raw[i]))]
         IN  upper(Collapse(plain))

\* _norm_nome (s is optional)
norm_nome(s) ==
    IF IsNone(s) \/ s = Some(<<>>) THEN <<>>
    ELSE LET raw == Val(s)
             plain == [i \in 1..Len(raw) |-> Blank(Deaccent(raw[i]))]
         IN  upper(strip(Collapse(plain)))

\* _tokens: nome_norm.split(" ") without the empty pieces
RECURSIVE SplitFrom(_, _)
SplitFrom(s, cur) ==
    IF s = <<>> THEN (IF cur = <<>> THEN <<>> ELSE <<cur>>)
    ELSE IF s[1] = " "
         THEN (IF cur = <<>> THEN <<>> ELSE <<cur>>) \o SplitFrom(Tail(s), <<>>)
         ELSE SplitFrom(Tail(s), Append(cur, s[1]))
tokens(nome_norm) == SplitFrom(nome_norm, <<>>)
Range(f) == {f[i] : i \in DOMAIN f}

\* _score_name with the containment test made on the names without their
\* spaces.
score_name_compact_substring(a, b) ==
    IF a = <<>> \/ b = <<>> THEN Rat(0, 100)
    ELSE IF a = b THEN Rat(100, 100)
    ELSE IF IsSubstr(Filter(a, Letter \cup Digit), Filter(b, Letter \cup Digit))
            \/ IsSubstr(Filter(b, Letter \cup Digit), Filter(a, Letter \cup Digit))
         THEN Rat(92, 100)
    ELSE LET ta == Range(tokens(a))
             tb == Range(tokens(b))
         IN  IF ta = {} \/ tb = {} THEN Rat(0, 100)
             ELSE LET inter == Cardinality(ta \cap tb)
                      union == Cardinality(ta \cup tb)
                      first_bonus ==
                          IF tokens(a)[1] = tokens(b)[1] THEN 12 ELSE 0
                  IN  RatMin(Rat(88 * inter + first_bonus * union, 100 * union),
                             Rat(99, 100))

\* _score_name(a, b) on normalized names
score_name(a, b) ==
    IF a = <<>> \/ b = <<>> THEN Rat(0, 100)
    ELSE IF a = b THEN Rat(100, 100)
    ELSE IF IsSubstr(a, b) \/ IsSubstr(b, a) THEN Rat(92, 100)
    ELSE LET ta == Range(tokens(a))
             tb == Range(tokens(b))
         IN  IF ta = {} \/ tb = {} THEN Rat(0, 100)
             ELSE LET inter == Cardinality(ta \cap tb)
                      union == Cardinality(ta \cup tb)
                      first_bonus ==
                          IF tokens(a)[1] = tokens(b)[1] THEN 12 ELSE 0
                  IN  RatMin(Rat(88 * inter + first_bonus * union, 100 * union),
                             Rat(99, 100))

\* default arguments of find_colaborador_ref
gpt_min_score == Rat(70, 100)
gpt_trigger_score == Rat(82, 100)

\* the `out` dict of find_colaborador_ref as first built (lines 142-153); the
\* fields status, departamento, cargo and nome are copied from the row the
\* same way as bruto_referencial and are left out
NoMatch ==
    [bruto_referencial |-> None, match_score |-> None,
     match_nome_planilha |-> None, match_metodo |-> None]
\* the assignments to `out` from a selected row r
RowResult(r, score, nome_plan, metodo) ==
    [bruto_referencial |-> r.BRUTO, match_score |-> Some(score),
     match_nome_planilha |-> Some(strip(nome_plan)), match_metodo |-> Some(metodo)]

Min(S) == CHOOSE x \in S : \A y \in S : x <= y

\* The CPF step taking the first of several rows that carry the id.
cpf_hit_first(table, cpf_d) ==
    LET hit == {i \in 1..Len(table) : table[i].CPF_DIG = cpf_d}
    IN  IF cpf_d # <<>> /\ (\E i \in 1..Len(table) : table[i].CPF_DIG # <<>>)
           /\ hit # {}
        THEN Min(hit) ELSE 0

\* The CPF step demanding a CPF on every row of the table.
cpf_hit_full_column(table, cpf_d) ==
    LET hit == {i \in 1..Len(table) : table[i].CPF_DIG = cpf_d}
    IN  IF cpf_d # <<>> /\ (\A i \in 1..Len(table) : table[i].CPF_DIG # <<>>)
           /\ Cardinality(hit) = 1
        THEN Min(hit) ELSE 0

\* Lines 162-164: the row selected by the CPF step, 0 when the step fails.
cpf_hit(table, cpf_d) ==
    LET hit == {i \in 1..Len(table) : table[i].CPF_DIG = cpf_d}
    IN  IF cpf_d # <<>> /\ (\E i \in 1..Len(table) : table[i].CPF_DIG # <<>>)
           /\ Cardinality(hit) = 1
        THEN Min(hit) ELSE 0

\* Lines 177-179: the row selected by the registration step, 0 when it fails.
mat_hit(table, mat) ==
    LET hit == {i \in 1..Len(table) : strip(table[i].MAT_NORM) = mat}
    IN  IF mat # <<>> /\ (\E i \in 1..Len(table) : table[i].MAT_NORM # <<>>)
           /\ Cardinality(hit) = 1
        THEN Min(hit) ELSE 0

\* Lines 194-198: the first row of highest score, as <<idx, score>>.
RECURSIVE BestFrom(_, _, _, _)
BestFrom(table, a, i, bst) ==
    IF i > Len(table) THEN bst
    ELSE LET s == score_name(a, table[i].NOME_NORM)
         IN  IF IsNone(bst) \/ RatLt(Val(bst)[2], s)
             THEN BestFrom(table, a, i + 1, Some(<<i, s>>))
             ELSE BestFrom(table, a, i + 1, bst)
best_fuzzy(table, a) == BestFrom(table, a, 1, None)

\* The acceptance test with the threshold at 0.50.
BelowMinLoose(bst) == IsNone(bst) \/ RatLt(Val(bst)[2], Rat(50, 100))

\* Line 200: best is None or best[1] < gpt_min_score
BelowMin(bst) == IsNone(bst) \/ RatLt(Val(bst)[2], gpt_min_score)

\* list.sort(key=score, reverse=True): stable, highest score first
RECURSIVE InsertByScore(_, _)
InsertByScore(c, sorted) ==
    IF sorted = <<>> THEN <<c>>
    ELSE IF RatLt(sorted[1].s, c.s) THEN <<c>> \o sorted
    ELSE <<sorted[1]>> \o InsertByScore(c, Tail(sorted))
RECURSIVE SortByScore(_)
SortByScore(l) ==
    IF l = <<>> THEN <<>>
    ELSE InsertByScore(l[Len(l)], SortByScore(SubSeq(l, 1, Len(l) - 1)))

RECURSIVE CandidatesFrom(_, _, _)
CandidatesFrom(table, a, i) ==
    IF i > Len(table) THEN <<>>
    ELSE LET s == score_name(a, table[i].NOME_NORM)
         IN  (IF RatLt(Rat(0, 100), s)
              THEN <<[idx |-> i, s |-> s, name |-> table[i].NOME_COL]>>
              ELSE <<>>) \o CandidatesFrom(table, a, i + 1)

\* top_candidates(df, nome, k)
top_candidates(table, nm, k) ==
    LET a == norm_nome(nm)
        l == SortByScore(CandidatesFrom(table, a, 1))
    IN  IF a = <<>> THEN <<>>
        ELSE SubSeq(l, 1, IF Len(l) < k THEN Len(l) ELSE k)

\* Lines 155-206: find_colaborador_ref up to the call of gpt_match_fn or the
\* return.  kind "done": `res` is returned; kind "ask": the oracle is called
\* with the fuzzy best (idx, score) pending.
find_before_oracle(table, cpf_in, nome_in, matricula_in, has_fn) ==
    LET cpf_d == digits(cpf_in)
        mat == IF IsNone(matricula_in) THEN <<>> ELSE strip(Val(matricula_in))
        a == norm_nome(nome_in)
        bst == best_fuzzy(table, a)
    IN  IF Len(table) = 0 THEN [kind |-> "done", res |-> NoMatch]
        ELSE IF cpf_hit(table, cpf_d) # 0 THEN
            LET r == table[cpf_hit(table, cpf_d)]
            IN  [kind |-> "done", res |-> RowResult(r, Rat(100, 100), r.NOME_COL, "cpf")]
        ELSE IF mat_hit(table, mat) # 0 THEN
            LET r == table[mat_hit(table, mat)]
            IN  [kind |-> "done",
                 res |-> RowResult(r, Rat(100, 100), r.NOME_COL, "matricula")]
        ELSE IF BelowMin(bst) THEN [kind |-> "done", res |-> NoMatch]
        ELSE IF has_fn /\ RatLt(Val(bst)[2], gpt_trigger_score)
             THEN [kind |-> "ask", idx |-> Val(bst)[1], score |-> Val(bst)[2]]
        ELSE LET r == table[Val(bst)[1]]
             IN  [kind |-> "done",
                  res |-> RowResult(r, Val(bst)[2], r.NOME_COL, "local_fuzzy")]

\* Lines 210-215: the first candidate whose name equals the oracle's answer,
\* 0 when there is none.
RECURSIVE PickedFrom(_, _, _)
PickedFrom(cs, pk, i) ==
    IF i > Len(cs) THEN 0
    ELSE IF upper(strip(cs[i].name)) = upper(strip(pk)) THEN i
    ELSE PickedFrom(cs, pk, i + 1)

\* The adoption of the oracle's answer keeping the fuzzy score of the best row.
find_after_oracle_keeps_score(table, cs, pk, idx, score) ==
    LET j == IF IsNone(pk) \/ pk = Some(<<>>) THEN 0 ELSE PickedFrom(cs, Val(pk), 1)
    IN  IF j # 0
        THEN RowResult(table[cs[j].idx], score, cs[j].name, "gpt_disambiguation")
        ELSE RowResult(table[idx], score, table[idx].NOME_COL, "local_fuzzy")

\* Lines 210-227: find_colaborador_ref after gpt_match_fn returned `pk`.
find_after_oracle(table, cs, pk, idx, score) ==
    LET j == IF IsNone(pk) \/ pk = Some(<<>>) THEN 0 ELSE PickedFrom(cs, Val(pk), 1)
    IN  IF j # 0
        THEN RowResult(table[cs[j].idx], RatMax(score, Rat(95, 100)), cs[j].name,
                       "gpt_disambiguation")
        ELSE RowResult(table[idx], score, table[idx].NOME_COL, "local_fuzzy")

\* ----------------------------------------------------------------- app.py
\* float(referencia.replace(".", "").replace(",", ".")) in hundredths, None
\* when float() raises.  Covers the forms D+ and D+,DD of a reference
\* quantity; every other string of the inputs used here makes float() raise.
RECURSIVE DigitsValue(_)
DigitsValue(s) ==
    IF s = <<>> THEN 0
    ELSE 10 * DigitsValue(SubSeq(s, 1, Len(s) - 1))
         + (CHOOSE d \in 0..9 :
              <<"0","1","2","3","4","5","6","7","8","9">>[d + 1] = s[Len(s)])
AllDigits(s) == s # <<>> /\ \A i \in 1..Len(s) : s[i] \in Digit
RECURSIVE RemoveChar(_, _)
RemoveChar(s, c) ==
    IF s = <<>> THEN <<>>
    ELSE (IF s[1] = c THEN <<>> ELSE <<s[1]>>) \o RemoveChar(Tail(s), c)
ReplaceChar(s, c, d) == [i \in 1..Len(s) |-> IF s[i] = c THEN d ELSE s[i]]
referencia_float(referencia) ==
    LET t == ReplaceChar(RemoveChar(referencia, "."), ",", ".")
    IN  IF AllDigits(t) THEN Some(100 * DigitsValue(t))
        ELSE IF Len(t) >= 4 /\ t[Len(t) - 2] = "." /\ AllDigits(SubSeq(t, 1, Len(t) - 3))
                /\ AllDigits(SubSeq(t, Len(t) - 1, Len(t)))
             THEN Some(100 * DigitsValue(SubSeq(t, 1, Len(t) - 3))
                       + DigitsValue(SubSeq(t, Len(t) - 1, Len(t))))
        ELSE None

SALARIO_BASE == {"8781", "8786"}
INSS_CODES == {"998", "821"}

\* Lines 177-207: the loop over the employee's events.
\* g = [salario_base_clt, ref_base_dias, inss, verba_981]
RECURSIVE GatherFrom(_, _, _)
GatherFrom(evs, i, g) ==
    IF i > Len(evs) THEN g
    ELSE LET e == evs[i]
             cod == e.codigo
             provento == OrZero(e.provento)
             desconto == OrZero(e.desconto)
             referencia == IF IsNone(e.referencia) THEN <<>> ELSE strip(Val(e.referencia))
             g1 == IF cod \in SALARIO_BASE
                   THEN [g EXCEPT !.salario_base_clt = @ + provento,
                                  !.ref_base_dias =
                                      IF IsNone(@) /\ referencia # <<>>
                                      THEN referencia_float(referencia) ELSE @]
                   ELSE g
             g2 == IF cod = "981" THEN [g1 EXCEPT !.verba_981 = @ + desconto] ELSE g1
             g3 == IF cod \in INSS_CODES THEN [g2 EXCEPT !.inss = @ + desconto] ELSE g2
         IN  GatherFrom(evs, i + 1, g3)
Gathered(evs) ==
    LET g == GatherFrom(evs, 1, [salario_base_clt |-> 0, ref_base_dias |-> None,
                                 inss |-> 0, verba_981 |-> 0])
    IN  [g EXCEPT !.ref_base_dias = IF IsNone(@) THEN Some(3000) ELSE @]

\* Lines 230-241 with the base-salary earnings counted among the others.
RECURSIVE OutrosProventosAll(_)
OutrosProventosAll(evs) ==
    IF evs = <<>> THEN 0
    ELSE OrZero(evs[1].provento) + OutrosProventosAll(Tail(evs))

\* Lines 230-237: outros_proventos
RECURSIVE OutrosProventos(_)
OutrosProventos(evs) ==
    IF evs = <<>> THEN 0
    ELSE (IF evs[1].codigo \notin SALARIO_BASE THEN OrZero(evs[1].provento) ELSE 0)
         + OutrosProventos(Tail(evs))

\* Lines 230-241: outros_descontos
RECURSIVE OutrosDescontos(_)
OutrosDescontos(evs) ==
    IF evs = <<>> THEN 0
    ELSE (IF evs[1].codigo \notin {"981", "998", "821"}
          THEN OrZero(evs[1].desconto) ELSE 0)
         + OutrosDescontos(Tail(evs))

\* The floor left out.
NoFloor(v) == v

\* Lines 245-246: if valor_a_pagar < 0: valor_a_pagar = 0.0
Floor0(v) == IF v < 0 THEN 0 ELSE v

\* Line 224: float(ref_base_dias or 30.0), in hundredths of a day
Ref8781(ref_base_dias) ==
    IF IsNone(ref_base_dias) \/ ref_base_dias = Some(0) THEN 3000 ELSE Val(ref_base_dias)

\* Line 228: float(bruto_ref) * (float(ref_8781) / 30.0), in cents
BrutoProporcional(bruto, ref_8781_) == (bruto * ref_8781_) \div 3000

\* Line 128: the sidebar's "Limiar de liquido ~0", default 0.0 (never read
\* by the calculation)
limiar_liquido_zero == 0

\* Line 215
REGRA_DEMONSTRATIVO ==
    "DEMONSTRATIVO: Bruto(planilha proporcional) + Outros Proventos - 981 - INSS - Outros Descontos"

\* ------------------------------------------------------------------ state
\* ------------------------------------------------------------ _regex_guess
\* " ".join(toks)
RECURSIVE Join(_)
Join(toks) ==
    IF toks = <<>> THEN <<>>
    ELSE IF Len(toks) = 1 THEN toks[1]
    ELSE toks[1] \o <<" ">> \o Join(Tail(toks))

\* str.startswith
StartsWith(s, k) == Len(k) <= Len(s) /\ SubSeq(s, 1, Len(k)) = k

\* MONEY_RE.fullmatch(tok): (?:\d{1,3}(?:\.\d{3})*|\d+),(?:\d{2})
RECURSIVE DotGroups(_)
\* (?:\.\d{3})* against the whole of s
DotGroups(s) ==
    \/ s = <<>>
    \/ /\ Len(s) >= 4 /\ s[1] = "." /\ AllDigits(SubSeq(s, 2, 4))
       /\ DotGroups(SubSeq(s, 5, Len(s)))
IsMoney(tok) ==
    /\ Len(tok) >= 4
    /\ tok[Len(tok) - 2] = ","
    /\ AllDigits(SubSeq(tok, Len(tok) - 1, Len(tok)))
    /\ LET ip == SubSeq(tok, 1, Len(tok) - 3)
       IN  \/ AllDigits(ip)
           \/ \E k \in 1..3 : /\ k <= Len(ip) /\ AllDigits(SubSeq(ip, 1, k))
                              /\ DotGroups(SubSeq(ip, k + 1, Len(ip)))

\* re.fullmatch(r"\d{1,2}:\d{2}", tok)
IsTime(tok) ==
    /\ Len(tok) \in {4, 5}
    /\ tok[Len(tok) - 2] = ":"
    /\ AllDigits(SubSeq(tok, Len(tok) - 1, Len(tok)))
    /\ AllDigits(SubSeq(tok, 1, Len(tok) - 3))

\* _is_ref_token
is_ref_token(tok) == IsTime(tok) \/ IsMoney(tok)

\* parse_money_any on a string, in cents: the characters outside [0-9,.-] are
\* dropped, and a string holding a comma is read as pt-BR (dots removed, the
\* comma the decimal mark).  Without a comma only a string of digits is
\* covered here; None stands for the None the function returns.
parse_money_any(x) ==
    LET s == Filter(strip(x), Digit \cup {",", ".", "-"})
    IN  IF s = <<>> THEN None
        ELSE IF \E i \in 1..Len(s) : s[i] = "," THEN referencia_float(s)
        ELSE IF AllDigits(s) THEN Some(100 * DigitsValue(s))
        ELSE None

\* the number of monetary tokens popped from the end of the line (at most 2,
\* and never the first token)
TailCount(toks) ==
    IF Len(toks) > 1 /\ IsMoney(toks[Len(toks)])
    THEN IF Len(toks) - 1 > 1 /\ IsMoney(toks[Len(toks) - 1]) THEN 2 ELSE 1
    ELSE 0

\* codes that make desconto_hint true
HintCodes == { <<"9","8","1">>, <<"9","9","8">>, <<"6","8","6">>, <<"2","5","5">>, <<"8","0","6","9">> }
\* substrings of the upper-cased description that make desconto_hint true
HintWords == { <<"I","N","S","S">>,
               <<"I",".","N",".","S",".","S">>,
               <<"R","E","S","S","A","R","C">>,
               <<"P","R","E","J","U","I">>,
               <<"A","T","R","A","S">>,
               <<"F","A","L","T","A">>,
               <<"M","U","L","T","A">>,
               <<"P","E","N","A","L">> }
desconto_hint(codigo, desc_up) ==
    \/ StartsWith(desc_up, <<"D","E","S","C">>)
    \/ \E k \in HintWords : IsSubstr(k, desc_up)
    \/ codigo \in HintCodes

\* `val if (val or 0) != 0 else None`
NonZero(v) == IF OrZero(v) # 0 THEN v ELSE None

\* The body of `if in_table:` taking, under a deduction hint, the first of two
\* amount columns as the deduction.
ParseLine_first_column_deduction(toks) ==
    LET nt == TailCount(toks)
        tail_money_str == SubSeq(toks, Len(toks) - nt + 1, Len(toks))
        tail_money == [i \in 1..nt |-> parse_money_any(tail_money_str[i])]
        rest == SubSeq(toks, 1, Len(toks) - nt)
        ref0 == IF Len(rest) > 1 THEN Some(rest[Len(rest)]) ELSE None
        one_value_mode == NotNone(ref0) /\ ~is_ref_token(Val(ref0)) /\ nt = 2
        referencia == IF one_value_mode THEN Some(tail_money_str[1]) ELSE ref0
        money == IF one_value_mode THEN <<tail_money[2]>> ELSE tail_money
        \* lines 206-210: the last remaining token is removed, whether or not
        \* it is the reference, and the others, the code left out, are joined
        kept == IF NotNone(referencia) /\ Len(rest) > 1
                THEN SubSeq(rest, 1, Len(rest) - 1) ELSE rest
        descricao == strip(Join(Tail(kept)))
        hint == desconto_hint(toks[1], upper(descricao))
    IN  IF Len(toks) < 4 \/ nt = 0 THEN None
        ELSE Some([codigo |-> toks[1], descricao |-> descricao,
                   referencia |-> referencia,
                   provento |->
                       IF hint THEN None ELSE NonZero(money[1]),
                   desconto |->
                       IF Len(money) = 1
                       THEN (IF hint THEN NonZero(money[1]) ELSE None)
                       ELSE (IF hint THEN NonZero(money[1]) ELSE NonZero(money[2]))])

\* Lines 156-243, the body of `if in_table:` for the tokens of one line: None
\* when the line is passed over, else the event appended.
ParseLine(toks) ==
    LET nt == TailCount(toks)
        tail_money_str == SubSeq(toks, Len(toks) - nt + 1, Len(toks))
        tail_money == [i \in 1..nt |-> parse_money_any(tail_money_str[i])]
        rest == SubSeq(toks, 1, Len(toks) - nt)
        ref0 == IF Len(rest) > 1 THEN Some(rest[Len(rest)]) ELSE None
        one_value_mode == NotNone(ref0) /\ ~is_ref_token(Val(ref0)) /\ nt = 2
        referencia == IF one_value_mode THEN Some(tail_money_str[1]) ELSE ref0
        money == IF one_value_mode THEN <<tail_money[2]>> ELSE tail_money
        \* lines 206-210: the last remaining token is removed, whether or not
        \* it is the reference, and the others, the code left out, are joined
        kept == IF NotNone(referencia) /\ Len(rest) > 1
                THEN SubSeq(rest, 1, Len(rest) - 1) ELSE rest
        descricao == strip(Join(Tail(kept)))
        hint == desconto_hint(toks[1], upper(descricao))
    IN  IF Len(toks) < 4 \/ nt = 0 THEN None
        ELSE Some([codigo |-> toks[1], descricao |-> descricao,
                   referencia |-> referencia,
                   provento |->
                       IF hint THEN None ELSE NonZero(money[1]),
                   desconto |->
                       IF Len(money) = 1
                       THEN (IF hint THEN NonZero(money[1]) ELSE None)
                       ELSE NonZero(money[2])])

\* a regular expression without repetition as a sequence of character sets,
\* searched in s as re.search does
MatchAt(pat, s, k) == \A j \in 1..Len(pat) : s[k + j - 1] \in pat[j]
Search(pat, s) == \E k \in 1..(Len(s) - Len(pat) + 1) : MatchAt(pat, s, k)
LowerChar(c) ==
    IF \E i \in 1..26 : UpperCase[i] = c
    THEN LowerCase[CHOOSE i \in 1..26 : UpperCase[i] = c]
    ELSE c
\* a literal word under re.IGNORECASE
CIWord(w) == [i \in 1..Len(w) |-> {LowerChar(w[i]), UpperChar(w[i])}]
\* \s+ on a line whose runs of whitespace were replaced by one space
Spaces == << {" "} >>
\* C[oó]digo\s+Descri[cç][aã]o\s+Refer[eê]ncia\s+Vencimentos\s+Descontos
HeaderPattern ==
    CIWord(<<"C">>) \o << {"o","O","ó","Ó"} >> \o CIWord(<<"d","i","g","o">>) \o Spaces
    \o CIWord(<<"D","e","s","c","r","i">>) \o << {"c","C","ç","Ç"}, {"a","A","ã","Ã"} >>
    \o CIWord(<<"o">>) \o Spaces
    \o CIWord(<<"R","e","f","e","r">>) \o << {"e","E","ê","Ê"} >> \o CIWord(<<"n","c","i","a">>) \o Spaces
    \o CIWord(<<"V","e","n","c","i","m","e","n","t","o","s">>) \o Spaces \o CIWord(<<"D","e","s","c","o","n","t","o","s">>)
\* Total\s+de\s+Vencimentos|Total\s+de\s+Descontos|Valor\s+L[ií]quido
TotalsPatterns ==
    { CIWord(<<"T","o","t","a","l">>) \o Spaces \o CIWord(<<"d","e">>) \o Spaces \o CIWord(<<"V","e","n","c","i","m","e","n","t","o","s">>),
      CIWord(<<"T","o","t","a","l">>) \o Spaces \o CIWord(<<"d","e">>) \o Spaces \o CIWord(<<"D","e","s","c","o","n","t","o","s">>),
      CIWord(<<"V","a","l","o","r">>) \o Spaces \o CIWord(<<"L">>) \o << {"i","I","í","Í"} >>
      \o CIWord(<<"q","u","i","d","o">>) }
IsHeaderLine(toks) == Search(HeaderPattern, Join(toks))
IsTotalsLine(toks) == \E p \in TotalsPatterns : Search(p, Join(toks))

\* Lines 237-245: the events without the repetitions of an earlier one
RECURSIVE Dedup(_, _)
Dedup(evs, seen) ==
    IF evs = <<>> THEN <<>>
    ELSE IF evs[1] \in seen THEN Dedup(Tail(evs), seen)
    ELSE <<evs[1]>> \o Dedup(Tail(evs), seen \cup {evs[1]})

\* ---------------------------------------------- parse_recibo_pagamento_pdf
\* _post_process_eventos as a function of its arguments: the `while improved`
\* loop run to its end
RECURSIVE WhileImproved(_, _, _, _)
WhileImproved(amb, tv, td, st) ==
    IF ~st.improved THEN st.out
    ELSE WhileImproved(amb, tv, td,
                       PassFrom(amb, 1, tv, td, [st EXCEPT !.improved = FALSE]))
post_process_eventos(evs, tv, td) ==
    IF evs = <<>> THEN evs
    ELSE LET cl == ForcedClassification(evs)
         IN  IF IsNone(tv) /\ IsNone(td) THEN cl
             ELSE WhileImproved(AmbiguousIdx(cl), tv, td,
                      [out |-> cl, sv |-> SumProvento(cl), sd |-> SumDesconto(cl),
                       best |-> objective(tv, td, SumProvento(cl), SumDesconto(cl)),
                       improved |-> TRUE])

\* An entry of an events list is a dict (a record with the event's keys) or a
\* value of another type, on which e.get raises AttributeError.
NotDict == [py_type |-> "str"]
IsDict(e) == e # NotDict
\* _post_process_eventos raises on this list (line 403, e.get on a non-dict)
PostProcessRaises(evs) == \E i \in 1..Len(evs) : ~IsDict(evs[i])

\* A JSON object as data.get reads it: a key that is missing and a key that
\* holds null both give None; `eventos` is a list or is not.
EmptyDict ==
    [competencia |-> None, nome |-> None, cpf |-> None, total_vencimentos |-> None,
     total_descontos |-> None, valor_liquido |-> None,
     eventos |-> [islist |-> FALSE, items |-> <<>>]]
\* _gpt_extract / _gpt_refine_events: what is returned for an outcome of the
\* request.  Without API key or openai package, on an exception of the
\* request, on an output that is no JSON and on a JSON value that is no
\* object, {} is returned; else the object.
gpt_result(outcome) == IF outcome.kind = "object" THEN outcome.obj ELSE EmptyDict

\* Python's `x or y` on optional strings: the empty string is falsy
OrElse(x, y) == IF IsNone(x) \/ x = Some(<<>>) THEN y ELSE x
\* `x = a; if x is None: x = b`
IfNone(x, y) == IF IsNone(x) THEN y ELSE x
\* `x or y` on optional numbers: 0 is falsy
OrElseNum(x, y) == IF IsNone(x) \/ x = Some(0) THEN y ELSE x

\* The merge with the declared totals and the net read with `or`, as the
\* name is: a zero of the oracle gives way to the deterministic value.
merge_falsy_totals(dt, bs) ==
    [comp |-> OrElse(dt.competencia, bs.competencia),
     nome |-> OrElse(dt.nome, bs.nome),
     cpf |-> OrElse(dt.cpf, bs.cpf),
     tv |-> OrElseNum(dt.total_vencimentos, bs.total_vencimentos),
     td |-> OrElseNum(dt.total_descontos, bs.total_descontos),
     liquido |-> OrElseNum(dt.valor_liquido, bs.liquido),
     eventos |-> IF ~dt.eventos.islist \/ Len(dt.eventos.items) = 0
                 THEN bs.eventos ELSE dt.eventos.items]

\* Lines 481-499: the merge of the oracle's dict with the deterministic one
merge(dt, bs) ==
    [comp |-> OrElse(dt.competencia, bs.competencia),
     nome |-> OrElse(dt.nome, bs.nome),
     cpf |-> OrElse(dt.cpf, bs.cpf),
     tv |-> IfNone(dt.total_vencimentos, bs.total_vencimentos),
     td |-> IfNone(dt.total_descontos, bs.total_descontos),
     liquido |-> IfNone(dt.valor_liquido, bs.liquido),
     eventos |-> IF ~dt.eventos.islist \/ Len(dt.eventos.items) = 0
                 THEN bs.eventos ELSE dt.eventos.items]

\* Lines 513-517 and 529-533: the mismatch of events against the totals
page_mismatch(evs, tv, td) ==
    (IF NotNone(tv) THEN Abs(Val(tv) - SumProvento(evs)) ELSE 0)
  + (IF NotNone(td) THEN Abs(Val(td) - SumDesconto(evs)) ELSE 0)

\* Line 519: mismatch > 2.0, in cents
NeedsRefinement(m) == m > 200

\* Lines 541-551: the record appended to results
PageRecord(m, evs, tv, td) ==
    [competencia |-> m.comp, nome |-> m.nome, cpf |-> m.cpf, liquido |-> m.liquido,
     total_vencimentos |-> tv, total_descontos |-> td, eventos |-> evs]

VARIABLES
    \* _post_process_eventos: arguments and locals
    eventos, total_venc, total_desc, out, ambiguous_idx, sv, sd, best, improved,
    rpc,
    \* find_colaborador_ref: arguments, the pending fuzzy best, the candidates
    \* handed to gpt_match_fn, the number of calls made to it, its answer, and
    \* the result
    df, cpf, nome, matricula, gpt_match_fn, pending, cands, oracle_calls, picked,
    match_out, mpc,
    \* app.py: the employee record colab (`c`), the match result ref, the locals of the
    \* complement calculation and the output rows
    colab, ref, bruto_ref, status, liquido, salario_base_clt, ref_base_dias, inss,
    verba_981, regra, valor_a_pagar, outros_proventos, desc_adiantamento,
    desc_inss, outros_descontos, ref_8781, bruto_proporcional, rows, apc,
    \* _regex_guess: the lines of the text, the index of the line the loop is
    \* at, the locals in_table, done_first_copy and eventos, the returned events
    text, ln_i, in_table, done_first_copy, guess_eventos, guess_out, gpc,
    \* parse_recibo_pagamento_pdf, one page: the argument use_gpt, the dict of
    \* _regex_guess, how the extraction request ended, the merged values, the
    \* locals eventos, tv, td and mismatch, how the refinement request ended,
    \* the number of refinement requests, the list results, whether an
    \* exception left the function
    use_gpt, base, gpt_outcome, merged, pg_eventos, pg_tv, pg_td, pg_mismatch,
    refine_outcome, refine_calls, results, raised, ppc,
    \* app.py, the run in which the button is pressed: the employee records, the
    \* position of the loop over them, the list rows, the exception that ended
    \* the run
    colabs, batch_i, batch_rows, batch_error, bpc,
    \* _norm_nome: the argument s, what the call returns, and what a second call
    \* on that string returns
    s_arg, norm_once, norm_twice, npc,
    \* _score_name: the normalized name a of the payslip, the normalized names of
    \* two rows, and the score of a against each
    sn_a, sn_b, sn_c, score_ab, score_ac, spc

recVars == <<eventos, total_venc, total_desc, out, ambiguous_idx, sv, sd, best,
             improved, rpc>>
matVars == <<df, cpf, nome, matricula, gpt_match_fn, pending, cands, oracle_calls,
             picked, match_out, mpc>>
appVars == <<colab, ref, bruto_ref, status, liquido, salario_base_clt, ref_base_dias,
             inss, verba_981, regra, valor_a_pagar, outros_proventos,
             desc_adiantamento, desc_inss, outros_descontos, ref_8781,
             bruto_proporcional, rows, apc>>
rgxVars == <<text, ln_i, in_table, done_first_copy, guess_eventos, guess_out, gpc>>
parVars == <<use_gpt, base, gpt_outcome, merged, pg_eventos, pg_tv, pg_td,
             pg_mismatch, refine_outcome, refine_calls, results, raised, ppc>>
batVars == <<colabs, batch_i, batch_rows, batch_error, bpc>>
nrmVars == <<s_arg, norm_once, norm_twice, npc>>
scoVars == <<sn_a, sn_b, sn_c, score_ab, score_ac, spc>>
vars == <<recVars, matVars, appVars, rgxVars, parVars, batVars, nrmVars, scoVars>>
notRec == <<matVars, appVars, rgxVars, parVars, batVars, nrmVars, scoVars>>
notMat == <<recVars, appVars, rgxVars, parVars, batVars, nrmVars, scoVars>>
notApp == <<recVars, matVars, rgxVars, parVars, batVars, nrmVars, scoVars>>
notRgx == <<recVars, matVars, appVars, parVars, batVars, nrmVars, scoVars>>
notPar == <<recVars, matVars, appVars, rgxVars, batVars, nrmVars, scoVars>>
notBat == <<recVars, matVars, appVars, rgxVars, parVars, nrmVars, scoVars>>
notNrm == <<recVars, matVars, appVars, rgxVars, parVars, batVars, scoVars>>
notSco == <<recVars, matVars, appVars, rgxVars, parVars, batVars, nrmVars>>

\* --------------------------------------------- inputs of the reconciler
\* one code forced to earning, one forced to deduction, one without a hint
RecCodes == {"8781", "998", "300"}
\* a neutral description and one that holds a deduction keyword once upper-cased
DescPool == { <<"H","O","R","A","S">>, <<"v","a","l","e">> }
\* <<code, description>>: every pair but those of a forced code with the
\* description that says the same as the code
RecKinds ==
    (RecCodes \X DescPool) \ { <<"998", <<"v","a","l","e">> >>,
                               <<"8781", <<"H","O","R","A","S">> >> }
\* <<provento, desconto>> as extracted: one amount of one cent or of MaxAmt
\* cents in a column, both columns filled, a zero
AmountPairs ==
    { <<Some(1), None>>, <<Some(MaxAmt), None>>, <<None, Some(MaxAmt)>>,
      <<Some(MaxAmt), Some(1)>>, <<Some(0), None>>, <<Some(MaxAmt), Some(0)>> }
Totals == Opt({1, MaxTotal})
RecEvents ==
    { [codigo |-> kd[1], descricao |-> kd[2], referencia |-> None,
       provento |-> pr[1], desconto |-> pr[2]] :
         kd \in RecKinds, pr \in AmountPairs }
Ledgers == UNION {[1..n -> RecEvents] : n \in 0..MaxEvents}

RecIdle ==
    /\ eventos = <<>> /\ total_venc = None /\ total_desc = None
    /\ out = <<>> /\ ambiguous_idx = <<>> /\ sv = 0 /\ sd = 0 /\ best = 0
    /\ improved = FALSE /\ rpc = "idle"

RecInit ==
    /\ eventos \in Ledgers
    /\ total_venc \in Totals
    /\ total_desc \in Totals
    /\ out = <<>> /\ ambiguous_idx = <<>> /\ sv = 0 /\ sd = 0 /\ best = 0
    /\ improved = FALSE
    /\ rpc = "call"

\* Lines 384-447: the empty-ledger return, step 1 over every event, and the
\* set-up of the search when a declared total is given.
Classify ==
    /\ rpc = "call"
    /\ IF eventos = <<>>
       THEN /\ out' = eventos
            /\ rpc' = "done"
            /\ UNCHANGED <<ambiguous_idx, sv, sd, best, improved>>
       ELSE LET cl == ForcedClassification(eventos)
            IN  /\ out' = cl
                /\ ambiguous_idx' = AmbiguousIdx(cl)
                /\ IF NotNone(total_venc) \/ NotNone(total_desc)
                   THEN /\ sv' = SumProvento(cl)
                        /\ sd' = SumDesconto(cl)
                        /\ best' = objective(total_venc, total_desc,
                                             SumProvento(cl), SumDesconto(cl))
                        /\ improved' = TRUE
                        /\ rpc' = "search"
                   ELSE /\ rpc' = "done"
                        /\ UNCHANGED <<sv, sd, best, improved>>
    /\ UNCHANGED <<eventos, total_venc, total_desc>>
    /\ UNCHANGED notRec

\* Lines 448-467: one iteration of `while improved`, a full pass over
\* ambiguous_idx.
Pass ==
    /\ rpc = "search"
    /\ improved
    /\ LET st == PassFrom(ambiguous_idx, 1, total_venc, total_desc,
                          [out |-> out, sv |-> sv, sd |-> sd, best |-> best,
                           improved |-> FALSE])
       IN  /\ out' = st.out
           /\ sv' = st.sv
           /\ sd' = st.sd
           /\ best' = st.best
           /\ improved' = st.improved
    /\ UNCHANGED <<eventos, total_venc, total_desc, ambiguous_idx, rpc>>
    /\ UNCHANGED notRec

\* Line 448 with improved false, then line 469.
Return ==
    /\ rpc = "search"
    /\ ~improved
    /\ rpc' = "done"
    /\ UNCHANGED <<eventos, total_venc, total_desc, out, ambiguous_idx, sv, sd,
                   best, improved>>
    /\ UNCHANGED notRec

RecNext == Classify \/ Pass \/ Return

\* The caller before the call, and the call of _post_process_eventos with a
\* ledger and declared totals.
RecEntry ==
    /\ eventos = <<>> /\ total_venc = None /\ total_desc = None
    /\ out = <<>> /\ ambiguous_idx = <<>> /\ sv = 0 /\ sd = 0 /\ best = 0
    /\ improved = FALSE /\ rpc = "entry"
\* ledgers of the runs: events of the code without a hint and of the code
\* forced to deduction, under the neutral description, and an event of the
\* code forced to earning that came with a zero in the earning column
ZeroEarning ==
    [codigo |-> "8781", descricao |-> <<"H","O","R","A","S">>, referencia |-> None,
     provento |-> Some(0), desconto |-> Some(MaxAmt)]
RunEvents ==
    { e \in RecEvents : e.codigo \in {"300", "998"}
                         /\ e.descricao = <<"H","O","R","A","S">> }
    \cup { ZeroEarning }
RunLedgers == UNION {[1..n -> RunEvents] : n \in 0..MaxEvents}
Enter ==
    /\ rpc = "entry"
    /\ eventos' \in RunLedgers
    /\ total_venc' \in Totals
    /\ total_desc' \in Totals
    /\ rpc' = "call"
    /\ UNCHANGED <<out, ambiguous_idx, sv, sd, best, improved>>
    /\ UNCHANGED notRec
RecRunNext == Enter \/ Classify \/ Pass \/ Return

\* ------------------------------------------------ inputs of the matcher
MaxRows == 2
\* spreadsheet names: "a.b" (normalized "A B"), "A C B", "B A" and "BA"
NamePool ==
    { <<"a",".","b">>, <<"A"," ","C"," ","B">>, <<"B"," ","A">>, <<"B","A">> }
\* the nome argument: None, one of three spreadsheet names, or "A"
NomePool == Opt((NamePool \ { <<"B","A">> }) \cup { <<"A">> })
\* CPF_DIG of a row: no CPF, or the digits "1"
CpfDigPool == { <<>>, <<"1">> }
\* the cpf argument: None and "1."
CpfPool == { None, Some(<<"1",".">>) }
\* MAT_NORM of a row: no registration id, or "7"
MatNormPool == { <<>>, <<"7">> }
\* the matricula argument: None and " 7"
MatPool == { None, Some(<<" ","7">>) }
\* what gpt_match_fn may answer: None, "", a spreadsheet name, " A.B" or " b a"
Answers == Opt(NamePool \cup {<<>>, <<" ","A",".","B">>, <<" ","b"," ","a">>})

\* load_salario_real_xlsx, lines 97-109: the derived columns of row i.  The
\* gross of row i is 1000.00 * i, so that a result names its row.
MkRow(i, nm, c, m) ==
    [NOME_COL |-> nm, NOME_NORM |-> norm_nome(Some(nm)), BRUTO |-> Some(100000 * i),
     CPF_DIG |-> c, MAT_NORM |-> m]
RowSpecs == [nm : NamePool, c : CpfDigPool, m : MatNormPool]
Tables ==
    UNION { { [i \in 1..n |-> MkRow(i, f[i].nm, f[i].c, f[i].m)] :
              f \in [1..n -> RowSpecs] } : n \in 0..MaxRows }

MatIdle ==
    /\ df = <<>> /\ cpf = None /\ nome = None /\ matricula = None
    /\ gpt_match_fn = FALSE /\ pending = None /\ cands = <<>>
    /\ oracle_calls = 0 /\ picked = None /\ match_out = NoMatch /\ mpc = "idle"

MatInit ==
    /\ df \in Tables
    /\ cpf \in CpfPool
    /\ nome \in NomePool
    /\ matricula \in MatPool
    /\ gpt_match_fn \in BOOLEAN
    /\ pending = None /\ cands = <<>> /\ oracle_calls = 0 /\ picked = None
    /\ match_out = NoMatch /\ mpc = "call"

\* find_colaborador_ref from its entry to its return or to the call of
\* gpt_match_fn (lines 138-209).
Find ==
    /\ mpc = "call"
    /\ LET f == find_before_oracle(df, cpf, nome, matricula, gpt_match_fn)
       IN  IF f.kind = "done"
           THEN /\ match_out' = f.res
                /\ mpc' = "done"
                /\ UNCHANGED <<pending, cands, oracle_calls>>
           ELSE /\ pending' = Some(<<f.idx, f.score>>)
                /\ cands' = top_candidates(df, IF IsNone(nome) THEN Some(<<>>) ELSE nome, 12)
                /\ oracle_calls' = oracle_calls + 1
                /\ mpc' = "oracle"
                /\ UNCHANGED match_out
    /\ UNCHANGED <<df, cpf, nome, matricula, gpt_match_fn, picked>>
    /\ UNCHANGED notMat

\* gpt_match_fn returns `picked`; find_colaborador_ref runs to its return
\* (lines 209-227).
OracleReturns ==
    /\ mpc = "oracle"
    /\ picked' \in Answers
    /\ match_out' = find_after_oracle(df, cands, picked', Val(pending)[1], Val(pending)[2])
    /\ mpc' = "done"
    /\ UNCHANGED <<df, cpf, nome, matricula, gpt_match_fn, pending, cands, oracle_calls>>
    /\ UNCHANGED notMat

MatNext == Find \/ OracleReturns

\* ------------------------------------- inputs of the complement calculation
\* reference gross salaries 200.00, 4000.00 and 5000.00, or none
BrutoPool == Opt({20000, 400000, 500000})
\* declared net 0.00 or 3200.00, or none
LiquidoPool == Opt({0, 320000})
\* the status column: absent, "Ativo", "DESLIGADO"
StatusPool ==
    { None, Some(<<"A","t","i","v","o">>),
      Some(<<"D","E","S","L","I","G","A","D","O">>) }
\* base salary, INSS, salary advance, and a code of no special role
AppCodes == {"8781", "998", "981", "300"}
\* reference quantity: none, "15,00", "0,00", and the unparsable "H"
RefPool ==
    { None, Some(<<"1","5",",","0","0">>), Some(<<"0",",","0","0">>), Some(<<"H">>) }
\* <<referencia, provento, desconto>>: an earning of 3000.00 with each
\* reference, a deduction of 300.00, and both amounts on one event
AppAmounts ==
    { <<r, Some(300000), None>> : r \in RefPool }
    \cup { <<None, None, Some(30000)>>, <<None, Some(300000), Some(30000)>> }
AppEvents ==
    { [codigo |-> cd, descricao |-> <<>>, referencia |-> t[1],
       provento |-> t[2], desconto |-> t[3]] : cd \in AppCodes, t \in AppAmounts }
AppLedgers == UNION {[1..n -> AppEvents] : n \in 0..MaxEvents}

AppIdle ==
    /\ colab = [liquido |-> None, eventos |-> <<>>]
    /\ ref = [bruto_referencial |-> None, status |-> None]
    /\ bruto_ref = None /\ status = <<>> /\ liquido = None
    /\ salario_base_clt = 0 /\ ref_base_dias = None /\ inss = 0 /\ verba_981 = 0
    /\ regra = "" /\ valor_a_pagar = None /\ outros_proventos = 0
    /\ desc_adiantamento = 0 /\ desc_inss = 0 /\ outros_descontos = 0
    /\ ref_8781 = 0 /\ bruto_proporcional = None /\ rows = <<>> /\ apc = "idle"

AppInit ==
    /\ colab \in [liquido : LiquidoPool, eventos : AppLedgers]
    /\ ref \in [bruto_referencial : BrutoPool, status : StatusPool]
    /\ bruto_ref = None /\ status = <<>> /\ liquido = None
    /\ salario_base_clt = 0 /\ ref_base_dias = None /\ inss = 0 /\ verba_981 = 0
    /\ regra = "" /\ valor_a_pagar = None /\ outros_proventos = 0
    /\ desc_adiantamento = 0 /\ desc_inss = 0 /\ outros_descontos = 0
    /\ ref_8781 = 0 /\ bruto_proporcional = None /\ rows = <<>> /\ apc = "loop"

\* Lines 163-207: the body of `for c in colabs` after the match, for the
\* employee colab (`c`) with match result ref.
LoopBody ==
    /\ apc = "loop"
    /\ bruto_ref' = ref.bruto_referencial
    /\ status' = IF IsNone(ref.status) THEN <<>> ELSE upper(Val(ref.status))
    /\ liquido' = colab.liquido
    /\ LET g == Gathered(colab.eventos)
       IN  /\ salario_base_clt' = g.salario_base_clt
           /\ ref_base_dias' = g.ref_base_dias
           /\ inss' = g.inss
           /\ verba_981' = g.verba_981
    /\ apc' = "calc"
    /\ UNCHANGED <<colab, ref, regra, valor_a_pagar, outros_proventos, desc_adiantamento,
                   desc_inss, outros_descontos, ref_8781, bruto_proporcional, rows>>
    /\ UNCHANGED notApp

\* the dict appended at lines 249-273 (the fields of the calculation)
OutputRow(v, op, od) ==
    [status |-> ref.status, bruto_planilha |-> bruto_ref, liquido_holerite |-> liquido,
     regra_aplicada |-> REGRA_DEMONSTRATIVO, valor_a_pagar |-> v,
     salario_contratual_8781 |-> salario_base_clt, inss_998 |-> inss,
     desc_adiantamento_981 |-> verba_981, outros_proventos |-> op,
     outros_descontos |-> od, eventos |-> colab.eventos]

\* Lines 215-278: the calculation, and the append of the output row, which
\* the indentation places inside `if valor_a_pagar < 0`, itself inside
\* `if bruto_ref is not None`.
Calc ==
    /\ apc = "calc"
    /\ regra' = REGRA_DEMONSTRATIVO
    /\ desc_adiantamento' = verba_981
    /\ desc_inss' = inss
    /\ ref_8781' = Ref8781(ref_base_dias)
    /\ IF NotNone(bruto_ref)
       THEN LET bp == BrutoProporcional(Val(bruto_ref), Ref8781(ref_base_dias))
                op == OutrosProventos(colab.eventos)
                od == OutrosDescontos(colab.eventos)
                v == bp + op - verba_981 - inss - od
            IN  /\ bruto_proporcional' = Some(bp)
                /\ outros_proventos' = op
                /\ outros_descontos' = od
                /\ valor_a_pagar' = Some(Floor0(v))
                /\ rows' = IF v < 0 THEN Append(rows, OutputRow(Some(Floor0(v)), op, od))
                           ELSE rows
       ELSE /\ bruto_proporcional' = None
            /\ outros_proventos' = 0
            /\ outros_descontos' = 0
            /\ valor_a_pagar' = None
            /\ rows' = rows
    /\ apc' = "done"
    /\ UNCHANGED <<colab, ref, bruto_ref, status, liquido, salario_base_clt, ref_base_dias,
                   inss, verba_981>>
    /\ UNCHANGED notApp

AppNext == LoopBody \/ Calc

\* ------------------------------------------------ inputs of _regex_guess
\* A text is a sequence of lines, and a line the tokens ln.split() gives.
MaxLines == 5
\* first tokens: a code without a hint, a code that forces a deduction, and a
\* word that is no code
RgxCodes == { <<"8","7","8","1">>, <<"9","8","1">>, <<"X">> }
\* the description tokens
RgxDescs == { << <<"S","A","L","A","R","I","O">> >>, << <<"S","A","L","A","R","I","O">>, <<"C","O","N","T","R","A","T","U","A","L",".">> >>, << <<"D","E","S","C">> >>,
              << >> }
\* the reference column: empty, a monetary number, a time, a number that is
\* neither
RgxRefs == { << >>, << <<"3","0",",","0","0">> >>, << <<"5",":","3","8">> >>, << <<"7",",","5">> >> }
\* the amount columns
RgxMoney == { <<"1",".","5","1","8",",","0","0">>, <<"0",",","0","0">> }
RgxTails == { << >> } \cup { <<m>> : m \in RgxMoney }
            \cup { <<m, n>> : m \in RgxMoney, n \in RgxMoney }
EventLines ==
    { <<cd>> \o ds \o rf \o tl :
        cd \in RgxCodes, ds \in RgxDescs, rf \in RgxRefs, tl \in RgxTails }
HeaderLine == << <<"C","ó","d","i","g","o">>, <<"D","e","s","c","r","i","ç","ã","o">>, <<"R","e","f","e","r","ê","n","c","i","a">>, <<"V","e","n","c","i","m","e","n","t","o","s">>,
                 <<"D","e","s","c","o","n","t","o","s">> >>
TotalsLine == << <<"T","o","t","a","l">>, <<"d","e">>, <<"V","e","n","c","i","m","e","n","t","o","s">>, <<"1",".","5","1","8",",","0","0">> >>
\* the lines of the longer texts: the header, a totals line, an empty line,
\* a line of three tokens and two event lines
ScanLines ==
    { HeaderLine, TotalsLine, << >>, << <<"8","7","8","1">>, <<"S","A","L","A","R","I","O">>, <<"1",".","5","1","8",",","0","0">> >>,
      << <<"8","7","8","1">>, <<"S","A","L","A","R","I","O">>, <<"C","O","N","T","R","A","T","U","A","L",".">>, <<"3","0",",","0","0">>, <<"1",".","5","1","8",",","0","0">> >>,
      << <<"9","8","1">>, <<"D","E","S","C">>, <<"A","D","I","A","N","T">>, <<"5",":","3","8">>, <<"0",",","0","0">>, <<"3","0",",","0","0">> >> }
Texts ==
    { <<HeaderLine, l>> : l \in EventLines }
    \cup UNION { [1..n -> ScanLines] : n \in 0..MaxLines }

RgxIdle ==
    /\ text = <<>> /\ ln_i = 0 /\ in_table = FALSE /\ done_first_copy = FALSE
    /\ guess_eventos = <<>> /\ guess_out = <<>> /\ gpc = "idle"

RgxInit ==
    /\ text \in Texts
    /\ ln_i = 1 /\ in_table = FALSE /\ done_first_copy = FALSE
    /\ guess_eventos = <<>> /\ guess_out = <<>> /\ gpc = "scan"

\* One iteration of the loop in which the closing of a table sets
\* done_first_copy whether or not an event was collected.
ScanLine_closes_without_events ==
    /\ gpc = "scan" /\ ln_i <= Len(text)
    /\ LET toks == text[ln_i]
       IN  IF toks = <<>>
           THEN /\ ln_i' = ln_i + 1
                /\ UNCHANGED <<in_table, done_first_copy, guess_eventos>>
           ELSE IF IsHeaderLine(toks)
           THEN IF done_first_copy
                THEN \* break
                     /\ ln_i' = Len(text) + 1
                     /\ UNCHANGED <<in_table, done_first_copy, guess_eventos>>
                ELSE /\ in_table' = TRUE
                     /\ ln_i' = ln_i + 1
                     /\ UNCHANGED <<done_first_copy, guess_eventos>>
           ELSE IF in_table /\ IsTotalsLine(toks)
           THEN /\ in_table' = FALSE
                /\ done_first_copy' = TRUE
                /\ ln_i' = ln_i + 1
                /\ UNCHANGED guess_eventos
           ELSE /\ guess_eventos' =
                     IF in_table /\ NotNone(ParseLine(toks))
                     THEN Append(guess_eventos, Val(ParseLine(toks)))
                     ELSE guess_eventos
                /\ ln_i' = ln_i + 1
                /\ UNCHANGED <<in_table, done_first_copy>>
    /\ UNCHANGED <<text, guess_out, gpc>>
    /\ UNCHANGED notRgx

\* One iteration of `for ln in text.splitlines()` (lines 141-235).
ScanLine ==
    /\ gpc = "scan" /\ ln_i <= Len(text)
    /\ LET toks == text[ln_i]
       IN  IF toks = <<>>
           THEN /\ ln_i' = ln_i + 1
                /\ UNCHANGED <<in_table, done_first_copy, guess_eventos>>
           ELSE IF IsHeaderLine(toks)
           THEN IF done_first_copy
                THEN \* break
                     /\ ln_i' = Len(text) + 1
                     /\ UNCHANGED <<in_table, done_first_copy, guess_eventos>>
                ELSE /\ in_table' = TRUE
                     /\ ln_i' = ln_i + 1
                     /\ UNCHANGED <<done_first_copy, guess_eventos>>
           ELSE IF in_table /\ IsTotalsLine(toks)
           THEN /\ in_table' = FALSE
                /\ done_first_copy' = (done_first_copy \/ guess_eventos # <<>>)
                /\ ln_i' = ln_i + 1
                /\ UNCHANGED guess_eventos
           ELSE /\ guess_eventos' =
                     IF in_table /\ NotNone(ParseLine(toks))
                     THEN Append(guess_eventos, Val(ParseLine(toks)))
                     ELSE guess_eventos
                /\ ln_i' = ln_i + 1
                /\ UNCHANGED <<in_table, done_first_copy>>
    /\ UNCHANGED <<text, guess_out, gpc>>
    /\ UNCHANGED notRgx

\* The end of the loop: the events are deduplicated and returned (lines
\* 237-249).
ScanReturn ==
    /\ gpc = "scan" /\ ln_i > Len(text)
    /\ guess_out' = Dedup(guess_eventos, {})
    /\ gpc' = "done"
    /\ UNCHANGED <<text, ln_i, in_table, done_first_copy, guess_eventos>>
    /\ UNCHANGED notRgx

RgxNext == ScanLine \/ ScanReturn

\* -------------------------------- inputs of parse_recibo_pagamento_pdf
\* an event without hint or keyword, one under a deduction code, one under
\* an earning code (amounts in cents)
EvAmbiguous == [codigo |-> "300", descricao |-> <<"H","O","R","A","S">>, referencia |-> None,
                provento |-> Some(500), desconto |-> None]
EvDeduction == [codigo |-> "998", descricao |-> <<"I","N","S","S">>, referencia |-> None,
                provento |-> Some(300), desconto |-> None]
EvEarning == [codigo |-> "8781", descricao |-> <<"S","A","L","A","R","I","O">>, referencia |-> None,
              provento |-> Some(1000), desconto |-> None]
\* what _regex_guess may return for the page
BaseDicts ==
    { [competencia |-> cp, nome |-> nm, cpf |-> pr[1], liquido |-> pr[3],
       total_vencimentos |-> t, total_descontos |-> pr[2], eventos |-> evs] :
         cp \in Opt({ <<"0","1","/","2","0","2","4">> }), nm \in Opt({ <<"A","n","a">> }),
         pr \in { <<None, None, None>>, <<Some(<<"1">>), Some(300), Some(100)>> },
         t \in Opt({500}), evs \in { <<>>, <<EvAmbiguous>> } }
\* the JSON objects the extraction request may answer with
GptObjects ==
    { [competencia |-> cp, nome |-> nm, cpf |-> cf, total_vencimentos |-> t,
       total_descontos |-> u, valor_liquido |-> lq, eventos |-> evs] :
         cp \in Opt({ <<>>, <<"0","2","/","2","0","2","4">> }), nm \in Opt({ <<"B","i","a">> }),
         cf \in Opt({ <<"2">> }), t \in Opt({0, 1000}), u \in Opt({300}),
         lq \in Opt({0}),
         evs \in { [islist |-> FALSE, items |-> <<>>],
                   [islist |-> TRUE, items |-> <<>>],
                   [islist |-> TRUE, items |-> <<EvDeduction>>],
                   [islist |-> TRUE, items |-> <<EvDeduction, EvAmbiguous>>],
                   [islist |-> TRUE, items |-> <<EvDeduction, NotDict>>] } }
\* the ways a request to the oracle ends
FailureKinds == {"no_key", "exception", "not_json", "not_object"}
Failures == { [kind |-> k, obj |-> EmptyDict] : k \in FailureKinds }
GptOutcomes == Failures \cup { [kind |-> "object", obj |-> o] : o \in GptObjects }
\* the JSON objects the refinement request may answer with
RefineObjects ==
    { [EmptyDict EXCEPT !.total_vencimentos = t, !.eventos = evs] :
         t \in Opt({0, 500}),
         evs \in { [islist |-> FALSE, items |-> <<>>],
                   [islist |-> TRUE, items |-> <<>>],
                   [islist |-> TRUE, items |-> <<EvEarning>>],
                   [islist |-> TRUE, items |-> <<EvAmbiguous>>],
                   [islist |-> TRUE, items |-> <<NotDict>>] } }
RefineOutcomes == Failures \cup { [kind |-> "object", obj |-> o] : o \in RefineObjects }
NoOutcome == [kind |-> "not_called", obj |-> EmptyDict]

ParIdle ==
    /\ use_gpt = FALSE /\ base = EmptyDict /\ gpt_outcome = NoOutcome
    /\ merged = EmptyDict /\ pg_eventos = <<>> /\ pg_tv = None /\ pg_td = None
    /\ pg_mismatch = 0 /\ refine_outcome = NoOutcome /\ refine_calls = 0
    /\ results = <<>> /\ raised = FALSE /\ ppc = "idle"

ParInit ==
    /\ use_gpt \in BOOLEAN
    /\ base \in BaseDicts
    /\ gpt_outcome = NoOutcome
    /\ merged = EmptyDict /\ pg_eventos = <<>> /\ pg_tv = None /\ pg_td = None
    /\ pg_mismatch = 0 /\ refine_outcome = NoOutcome /\ refine_calls = 0
    /\ results = <<>> /\ raised = FALSE /\ ppc = "page"

\* The body of the page loop from _regex_guess to the refinement request or
\* to results.append (lines 477-519 and 540-551): the extraction request,
\* the merge, the reconciliation and the mismatch.
ExtractAndReconcile ==
    /\ ppc = "page"
    /\ \E oc \in (IF use_gpt THEN GptOutcomes ELSE {NoOutcome}) :
         LET m == merge(gpt_result(oc), base)
             evs == post_process_eventos(m.eventos, m.tv, m.td)
             mm == page_mismatch(evs, m.tv, m.td)
         IN  /\ gpt_outcome' = oc
             /\ merged' = m
             /\ pg_tv' = m.tv
             /\ pg_td' = m.td
             /\ IF PostProcessRaises(m.eventos)
                THEN /\ raised' = TRUE
                     /\ ppc' = "raised"
                     /\ UNCHANGED <<pg_eventos, pg_mismatch, refine_calls, results>>
                ELSE /\ pg_eventos' = evs
                     /\ UNCHANGED raised
                     /\ IF use_gpt /\ (NotNone(m.tv) \/ NotNone(m.td))
                        THEN /\ pg_mismatch' = mm
                             /\ IF NeedsRefinement(mm)
                                THEN /\ refine_calls' = refine_calls + 1
                                     /\ ppc' = "refine"
                                     /\ UNCHANGED results
                                ELSE /\ results' = Append(results,
                                                     PageRecord(m, evs, m.tv, m.td))
                                     /\ ppc' = "done"
                                     /\ UNCHANGED refine_calls
                        ELSE /\ results' = Append(results,
                                                  PageRecord(m, evs, m.tv, m.td))
                             /\ ppc' = "done"
                             /\ UNCHANGED <<pg_mismatch, refine_calls>>
    /\ UNCHANGED <<use_gpt, base, refine_outcome>>
    /\ UNCHANGED notPar

\* _gpt_refine_events returns; lines 526-551.
RefineReturns ==
    /\ ppc = "refine"
    /\ \E oc \in RefineOutcomes :
         LET refined == gpt_result(oc)
             usable == refined.eventos.islist /\ Len(refined.eventos.items) > 0
             tv2 == OrElseNum(refined.total_vencimentos, pg_tv)
             td2 == OrElseNum(refined.total_descontos, pg_td)
             eventos2 == post_process_eventos(refined.eventos.items, tv2, td2)
             mismatch2 == page_mismatch(eventos2, tv2, td2)
         IN  /\ refine_outcome' = oc
             /\ IF usable /\ PostProcessRaises(refined.eventos.items)
                THEN /\ raised' = TRUE
                     /\ ppc' = "raised"
                     /\ UNCHANGED <<pg_eventos, pg_tv, pg_td, results>>
                ELSE /\ IF usable /\ mismatch2 + 1 < pg_mismatch
                        THEN /\ pg_eventos' = eventos2
                             /\ pg_tv' = tv2
                             /\ pg_td' = td2
                             /\ results' = Append(results,
                                               PageRecord(merged, eventos2, tv2, td2))
                        ELSE /\ results' = Append(results,
                                               PageRecord(merged, pg_eventos, pg_tv, pg_td))
                             /\ UNCHANGED <<pg_eventos, pg_tv, pg_td>>
                     /\ ppc' = "done"
                     /\ UNCHANGED raised
    /\ UNCHANGED <<use_gpt, base, gpt_outcome, merged, pg_mismatch, refine_calls>>
    /\ UNCHANGED notPar

ParNext == ExtractAndReconcile \/ RefineReturns

\* ------------------------------------- the processing script of app.py
\* The run of the script in which the button "Processar" is pressed, from the
\* return of parse_recibo_pagamento_pdf on.
MaxBatch == 3
\* the employee records the extractor may emit
BatchEmployees ==
    { [nome |-> nm, cpf |-> None, liquido |-> lq, eventos |-> <<>>] :
        nm \in Opt({ <<"A","n","a">>, <<"B","i","a">> }), lq \in Opt({0}) }
Batches == UNION { [1..n -> BatchEmployees] : n \in 0..MaxBatch }

BatIdle ==
    /\ colabs = <<>> /\ batch_i = 0 /\ batch_rows = <<>> /\ batch_error = ""
    /\ bpc = "idle"

\* Lines 147-155: colabs is what parse_recibo_pagamento_pdf returned, rows = []
BatInit ==
    /\ colabs \in Batches
    /\ batch_i = 1 /\ batch_rows = <<>> /\ batch_error = ""
    /\ bpc = "loop"

\* Lines 156-162, an iteration of `for c in colabs`: find_colaborador_ref is
\* called with df_sal, nome= and gpt_match_fn= only; its parameter cpf has no
\* default (matching.py:127-131), so the call raises TypeError and the script
\* run ends.
MatchCall ==
    /\ bpc = "loop" /\ batch_i <= Len(colabs)
    /\ batch_error' = "TypeError"
    /\ bpc' = "raised"
    /\ UNCHANGED <<colabs, batch_i, batch_rows>>
    /\ UNCHANGED notBat

\* The loop ends without an iteration (colabs is empty); the statements that
\* follow it stand at module level (lines 215-220): line 220 reads verba_981,
\* which only the loop body assigns, and raises NameError.
AfterLoop ==
    /\ bpc = "loop" /\ batch_i > Len(colabs)
    /\ batch_error' = "NameError"
    /\ bpc' = "raised"
    /\ UNCHANGED <<colabs, batch_i, batch_rows>>
    /\ UNCHANGED notBat

BatNext == MatchCall \/ AfterLoop

\* --------------------------------------------- _norm_nome applied twice
MaxLen == 3
\* a lower-case and an upper-case letter, an accented letter, a space, a
\* punctuation mark and a digit
NameChars == {"a", "B", "é", " ", ".", "7"}
NameStrings == UNION { [1..n -> NameChars] : n \in 0..MaxLen }

NrmIdle == s_arg = None /\ norm_once = <<>> /\ norm_twice = <<>> /\ npc = "idle"

NrmInit ==
    /\ s_arg \in Opt(NameStrings)
    /\ norm_once = <<>> /\ norm_twice = <<>> /\ npc = "call"

\* _norm_nome(s)
NormCall ==
    /\ npc = "call"
    /\ norm_once' = norm_nome(s_arg)
    /\ npc' = "once"
    /\ UNCHANGED <<s_arg, norm_twice>>
    /\ UNCHANGED notNrm

\* _norm_nome applied to the string the first call returned
NormAgain ==
    /\ npc = "once"
    /\ norm_twice' = norm_nome(Some(norm_once))
    /\ npc' = "twice"
    /\ UNCHANGED <<s_arg, norm_once>>
    /\ UNCHANGED notNrm

NrmNext == NormCall \/ NormAgain

\* ------------------------------------------------ _score_name on two rows
MaxTokens == 2
NameTokens == { <<"A">>, <<"B">>, <<"C">> }
\* normalized names: one to MaxTokens tokens with single spaces between them
NormNames == { Join(t) : t \in UNION { [1..n -> NameTokens] : n \in 1..MaxTokens } }

ScoIdle ==
    /\ sn_a = <<>> /\ sn_b = <<>> /\ sn_c = <<>>
    /\ score_ab = <<0, 1>> /\ score_ac = <<0, 1>> /\ spc = "idle"

\* the name of the payslip and the names of two rows of the spreadsheet
ScoInit ==
    /\ sn_a \in NormNames /\ sn_b \in NormNames /\ sn_c \in NormNames
    /\ score_ab = <<0, 1>> /\ score_ac = <<0, 1>> /\ spc = "call"

\* _score_name(a, b) for each of the two rows
ScoreRows ==
    /\ spc = "call"
    /\ score_ab' = score_name(sn_a, sn_b)
    /\ score_ac' = score_name(sn_a, sn_c)
    /\ spc' = "done"
    /\ UNCHANGED <<sn_a, sn_b, sn_c>>
    /\ UNCHANGED notSco

ScoNext == ScoreRows

\* ---------------------------------------------------------- specifications
InitReconcile == RecInit /\ MatIdle /\ AppIdle /\ RgxIdle /\ ParIdle /\ BatIdle /\ NrmIdle /\ ScoIdle
SpecReconcile == InitReconcile /\ [][RecNext]_vars
\* _post_process_eventos is a synchronous call: once entered it keeps running,
\* so a step that is enabled is eventually taken.  Classify is enabled exactly
\* when rpc = "call" and always changes rpc, so its weak fairness is written
\* with the enabling condition spelled out.
InitReconcileRuns == RecEntry /\ MatIdle /\ AppIdle /\ RgxIdle /\ ParIdle /\ BatIdle /\ NrmIdle /\ ScoIdle
FairClassify == []<>(rpc # "call") \/ []<><<Classify>>_vars
SpecReconcileRuns ==
    /\ InitReconcileRuns /\ [][RecRunNext]_vars
    /\ WF_vars(Enter) /\ FairClassify /\ WF_vars(Pass) /\ WF_vars(Return)

InitMatch == MatInit /\ RecIdle /\ AppIdle /\ RgxIdle /\ ParIdle /\ BatIdle /\ NrmIdle /\ ScoIdle
SpecMatch == InitMatch /\ [][MatNext]_vars

InitComplement == AppInit /\ RecIdle /\ MatIdle /\ RgxIdle /\ ParIdle /\ BatIdle /\ NrmIdle /\ ScoIdle
SpecComplement == InitComplement /\ [][AppNext]_vars

InitRegexGuess == RgxInit /\ RecIdle /\ MatIdle /\ AppIdle /\ ParIdle /\ BatIdle /\ NrmIdle /\ ScoIdle
SpecRegexGuess == InitRegexGuess /\ [][RgxNext]_vars

InitParsePage == ParInit /\ RecIdle /\ MatIdle /\ AppIdle /\ RgxIdle /\ BatIdle /\ NrmIdle /\ ScoIdle
SpecParsePage == InitParsePage /\ [][ParNext]_vars

InitBatch == BatInit /\ AppIdle /\ MatIdle /\ ParIdle /\ RecIdle /\ RgxIdle /\ NrmIdle /\ ScoIdle
SpecBatch == InitBatch /\ [][BatNext]_vars

InitNormalize == NrmInit /\ AppIdle /\ BatIdle /\ MatIdle /\ ParIdle /\ RecIdle /\ RgxIdle /\ ScoIdle
SpecNormalize == InitNormalize /\ [][NrmNext]_vars

InitScore == ScoInit /\ AppIdle /\ BatIdle /\ MatIdle /\ NrmIdle /\ ParIdle /\ RecIdle /\ RgxIdle
SpecScore == InitScore /\ [][ScoNext]_vars

\* ------------------------------------------------ claims on the reconciler
TotalsGiven == NotNone(total_venc) \/ NotNone(total_desc)
\* the mismatch objective of a ledger against the declared totals
Mismatch(evs) == objective(total_venc, total_desc, SumProvento(evs), SumDesconto(evs))
BothAmounts(e) == NotNone(e.provento) /\ NotNone(e.desconto)

\* C1: after _post_process_eventos returns, every returned event has at most
\* one of provento/desconto non-null, whatever the input ledger and totals.
C1_AtMostOneAmount ==
    rpc = "done" => \A i \in 1..Len(out) : ~BothAmounts(out[i])

\* C2 (as stated): with a declared total given, the mismatch objective of the
\* returned events is <= the objective of the input events, step 1 included.
C2_NoWorseThanInput ==
    (rpc = "done" /\ TotalsGiven) => Mismatch(out) <= Mismatch(eventos)

\* C2 (amended): with a declared total given, the mismatch objective of the
\* returned events is <= the objective of the events as step 1 (forced
\* classification) left them; the search never worsens it.
C2_NoWorseThanClassified ==
    (rpc = "done" /\ TotalsGiven) =>
        Mismatch(out) <= Mismatch(ForcedClassification(eventos))

\* a run in which the search flipped an event and lowered the objective
C2_Witness ==
    /\ rpc = "done" /\ TotalsGiven
    /\ out # ForcedClassification(eventos)
    /\ Mismatch(out) < Mismatch(ForcedClassification(eventos))

\* --------------------------------------------------- claims on the matcher
cpf_d_in == digits(cpf)
mat_in == IF IsNone(matricula) THEN <<>> ELSE strip(Val(matricula))
a_in == norm_nome(nome)
RowsWithCpf == {i \in 1..Len(df) : df[i].CPF_DIG = cpf_d_in}
RowsWithMat == {i \in 1..Len(df) : df[i].MAT_NORM = mat_in}
Metodo == match_out.match_metodo
ById == Metodo \in {Some("cpf"), Some("matricula")}
\* for the normalized input name a and row i of the table
ScoreOfRow(a, i) == score_name(a, df[i].NOME_NORM)
SharesToken(a, i) == Range(tokens(a)) \cap Range(tokens(df[i].NOME_NORM)) # {}
SubstringRelated(a, i) == IsSubstr(a, df[i].NOME_NORM) \/ IsSubstr(df[i].NOME_NORM, a)

\* C4: when exactly one row carries the supplied digits-only national id
\* (non-empty), the result is that row's data with method "cpf" and score 1.0,
\* whatever registration id and name are supplied.
C4_UniqueCpfWins ==
    (mpc = "done" /\ cpf_d_in # <<>> /\ Cardinality(RowsWithCpf) = 1) =>
        \E i \in RowsWithCpf :
            match_out = [bruto_referencial |-> df[i].BRUTO,
                         match_score |-> Some(<<1, 1>>),
                         match_nome_planilha |-> Some(strip(df[i].NOME_COL)),
                         match_metodo |-> Some("cpf")]

\* the id selects one row although the other row carries the registration id
\* and exactly the supplied name
C4_Witness ==
    /\ mpc = "done" /\ cpf_d_in # <<>> /\ Len(df) = 2
    /\ \E i, j \in 1..Len(df) :
         /\ RowsWithCpf = {i} /\ j # i
         /\ df[j].NOME_NORM = a_in /\ df[i].NOME_NORM # a_in
         /\ RowsWithMat = {j} /\ mat_in # <<>>
         /\ match_out.bruto_referencial = df[i].BRUTO
    /\ Metodo = Some("cpf")

\* C5: when two or more rows carry the supplied id, that id step selects no
\* row: the result is never attributed to it and resolution falls through to
\* the next step (a duplicated national id leaves a unique registration id to
\* decide).
C5_DuplicateIdSelectsNothing ==
    mpc = "done" =>
        /\ (cpf_d_in # <<>> /\ Cardinality(RowsWithCpf) >= 2) =>
              /\ Metodo # Some("cpf")
              /\ (mat_in # <<>> /\ Cardinality(RowsWithMat) = 1) =>
                    /\ Metodo = Some("matricula")
                    /\ \E j \in RowsWithMat : match_out.bruto_referencial = df[j].BRUTO
        /\ (mat_in # <<>> /\ Cardinality(RowsWithMat) >= 2) =>
              Metodo # Some("matricula")

\* a duplicated national id, passed over in favour of the registration step
C5_Witness ==
    /\ mpc = "done" /\ cpf_d_in # <<>> /\ Cardinality(RowsWithCpf) >= 2
    /\ mat_in # <<>> /\ Cardinality(RowsWithMat) = 1
    /\ Metodo = Some("matricula")

\* C6: when no id step succeeds and the best fuzzy score over all rows is below
\* 0.70, the result is the no-match result and the oracle is not called; no
\* returned row has a score below 0.70.
C6_BelowThresholdNoMatch ==
    mpc = "done" =>
        LET a == a_in
        IN  /\ (~ById /\ \A i \in 1..Len(df) : RatLt(ScoreOfRow(a, i), Rat(70, 100))) =>
                  (match_out = NoMatch /\ oracle_calls = 0)
            /\ NotNone(match_out.match_score) =>
                  ~RatLt(Val(match_out.match_score), Rat(70, 100))

\* an oracle is supplied and some row scores above 0.50 but every row below
\* 0.70
C6_Witness ==
    /\ mpc = "done" /\ ~ById /\ gpt_match_fn /\ Len(df) > 0
    /\ LET a == a_in
       IN  /\ \A i \in 1..Len(df) : RatLt(ScoreOfRow(a, i), Rat(70, 100))
           /\ \E i \in 1..Len(df) : RatLt(Rat(50, 100), ScoreOfRow(a, i))
    /\ match_out = NoMatch /\ oracle_calls = 0

\* C7 (as stated): two non-empty normalized names sharing no token score below
\* 0.70, and a table whose rows all share no token with the input name yields
\* the no-match result.
C7_ZeroSharedTokens ==
    mpc = "done" =>
        LET a == a_in
        IN  a # <<>> =>
              /\ \A i \in 1..Len(df) :
                    (df[i].NOME_NORM # <<>> /\ ~SharesToken(a, i)) =>
                        RatLt(ScoreOfRow(a, i), Rat(70, 100))
              /\ (\A i \in 1..Len(df) : ~SharesToken(a, i)) => match_out = NoMatch

\* C7 (amended): two non-empty normalized names sharing no token, neither of
\* them a substring of the other, score below 0.70; a table whose rows all
\* stand so to the input name yields the no-match result when no id step
\* succeeds.
C7_ZeroSharedTokensNoSubstring ==
    mpc = "done" =>
        LET a == a_in
        IN  a # <<>> =>
              /\ \A i \in 1..Len(df) :
                    (df[i].NOME_NORM # <<>> /\ ~SharesToken(a, i)
                       /\ ~SubstringRelated(a, i)) =>
                        RatLt(ScoreOfRow(a, i), Rat(70, 100))
              /\ (~ById /\ \A i \in 1..Len(df) :
                              ~SharesToken(a, i) /\ ~SubstringRelated(a, i)) =>
                    match_out = NoMatch

\* a two-row table sharing no token with the input name, no-match returned
C7_Witness ==
    /\ mpc = "done" /\ ~ById /\ Len(df) = 2
    /\ LET a == a_in
       IN  /\ a # <<>>
           /\ \A i \in 1..Len(df) :
                 df[i].NOME_NORM # <<>> /\ ~SharesToken(a, i) /\ ~SubstringRelated(a, i)
    /\ match_out = NoMatch

\* ------------------------------------- claims on the complement calculation
PosPart(v) == IF v < 0 THEN 0 ELSE v
RECURSIVE SumWhere(_, _, _)
\* the sum of field fld over the events whose code is in codes
SumWhere(evs, fld, codes) ==
    IF evs = <<>> THEN 0
    ELSE (IF evs[1].codigo \in codes THEN OrZero(evs[1][fld]) ELSE 0)
         + SumWhere(Tail(evs), fld, codes)
Ativo == status = <<"A","T","I","V","O">>
NetAtOrBelowThreshold == NotNone(liquido) /\ Val(liquido) <= limiar_liquido_zero
AdvancePresent == SumWhere(colab.eventos, "desconto", {"981"}) > 0
\* the value of the formula before the floor
RawPayable ==
    Val(bruto_proporcional) + outros_proventos - desc_adiantamento - desc_inss
    - outros_descontos

\* C3: the computed valor_a_pagar is never negative whenever it is non-null,
\* in the calculation and in every output row.
C3_PayableNeverNegative ==
    /\ NotNone(valor_a_pagar) => Val(valor_a_pagar) >= 0
    /\ \A i \in 1..Len(rows) :
          NotNone(rows[i].valor_a_pagar) => Val(rows[i].valor_a_pagar) >= 0

\* the formula gave a negative value and the floor replaced it by 0
C3_Witness ==
    /\ apc = "done" /\ NotNone(bruto_ref) /\ RawPayable < 0
    /\ valor_a_pagar = Some(0)

\* C8: with the declared net at or below the threshold or an advance deduction
\* present, and status active, the special rule applies: payable =
\* proportional gross - contracted salary - withholding, floored at 0, under a
\* rule label of its own.
C8_SpecialRule ==
    (apc = "done" /\ NotNone(bruto_ref) /\ Ativo
       /\ (NetAtOrBelowThreshold \/ AdvancePresent)) =>
        /\ valor_a_pagar =
             Some(PosPart(Val(bruto_proporcional)
                          - SumWhere(colab.eventos, "provento", {"8781", "8786"})
                          - SumWhere(colab.eventos, "desconto", {"998", "821"})))
        /\ regra # REGRA_DEMONSTRATIVO

StandardCase ==
    /\ apc = "done" /\ NotNone(bruto_ref) /\ Ativo
    /\ NotNone(liquido) /\ Val(liquido) > limiar_liquido_zero
    /\ ~AdvancePresent

C10_NoReferenceRowStillOutput ==
    (apc = "done" /\ IsNone(bruto_ref)) =>
        /\ Len(rows) = 1
        /\ IsNone(rows[1].valor_a_pagar)
        /\ rows[1].regra_aplicada = "REVISAR"

\* ------------------------------------------------- claims on _regex_guess
\* a line of at least 4 tokens that ends in two monetary tokens, the token
\* before them being neither a time nor a monetary number
SingleColumnLine(toks) ==
    /\ Len(toks) >= 4
    /\ IsMoney(toks[Len(toks)]) /\ IsMoney(toks[Len(toks) - 1])
    /\ ~is_ref_token(toks[Len(toks) - 2])
\* the text is the table header followed by one line
OneTableLine == Len(text) = 2 /\ IsHeaderLine(text[1]) /\ ~IsHeaderLine(text[2])
                /\ ~IsTotalsLine(text[2])

\* C11: a table line of at least 4 tokens ending in exactly two monetary
\* tokens, the token before them neither a time nor a monetary number, gives
\* one event whose reference is the first monetary token, whose only amount is
\* the second one, and whose description is every token between the code and
\* the reference.
C11_SingleColumnEvent ==
    (gpc = "done" /\ OneTableLine /\ SingleColumnLine(text[2])) =>
        LET toks == text[2]
            n == Len(toks)
        IN  /\ Len(guess_out) = 1
            /\ guess_out[1].codigo = toks[1]
            /\ guess_out[1].referencia = Some(toks[n - 1])
            /\ guess_out[1].descricao = Join(SubSeq(toks, 2, n - 2))
            /\ {guess_out[1].provento, guess_out[1].desconto}
                 = {None, parse_money_any(toks[n])}

\* ------------------------------ claims on parse_recibo_pagamento_pdf
\* the dict _gpt_extract returned
data == gpt_result(gpt_outcome)
\* the extraction request failed, or answered with an events array that holds
\* an entry that is no event object
ExtractionFailed ==
    \/ gpt_outcome.kind \in FailureKinds
    \/ /\ gpt_outcome.kind = "object"
       /\ data.eventos.islist /\ PostProcessRaises(data.eventos.items)
\* the record the page gets from _regex_guess and the reconciliation alone
DeterministicRecord ==
    PageRecord(merge(EmptyDict, base),
               post_process_eventos(base.eventos, base.total_vencimentos,
                                    base.total_descontos),
               base.total_vencimentos, base.total_descontos)

\* C12: with use_gpt set, a failure of the extraction oracle (exception,
\* output that is no JSON, JSON value that is no object, events array with
\* entries that are no event objects) never makes the function raise, and the
\* page's record is the one of the deterministic path alone (no refinement
\* having answered).
C12_OracleFailureDegrades ==
    (use_gpt /\ ExtractionFailed /\ refine_outcome.kind # "object") =>
        /\ ~raised
        /\ ppc = "done" => results = <<DeterministicRecord>>

\* C15 (as stated): after the merge each of name, competence, national id,
\* declared totals and declared net is the oracle's value whenever that is
\* non-null and the deterministic value otherwise; the events are the oracle's
\* list whenever that is a non-empty list and the deterministic list otherwise.
C15_MergeNonNullWins ==
    ppc \in {"refine", "done", "raised"} =>
        /\ merged.nome = IfNone(data.nome, base.nome)
        /\ merged.comp = IfNone(data.competencia, base.competencia)
        /\ merged.cpf = IfNone(data.cpf, base.cpf)
        /\ merged.tv = IfNone(data.total_vencimentos, base.total_vencimentos)
        /\ merged.td = IfNone(data.total_descontos, base.total_descontos)
        /\ merged.liquido = IfNone(data.valor_liquido, base.liquido)
        /\ merged.eventos = IF data.eventos.islist /\ data.eventos.items # <<>>
                            THEN data.eventos.items ELSE base.eventos

\* a string the oracle provided: non-null and not empty
Provided(x) == NotNone(x) /\ x # Some(<<>>)

\* C15 (amended): after the merge each of name, competence and national id is
\* the oracle's value whenever that is non-null and not the empty string, each
\* of the declared totals and the declared net is the oracle's value whenever
\* that is non-null (zero included), and the deterministic value otherwise;
\* the events are the oracle's list whenever that is a non-empty list and the
\* deterministic list otherwise, never a mixture.
C15_MergeProvidedWins ==
    ppc \in {"refine", "done", "raised"} =>
        /\ merged.nome = IF Provided(data.nome) THEN data.nome ELSE base.nome
        /\ merged.comp = IF Provided(data.competencia) THEN data.competencia
                         ELSE base.competencia
        /\ merged.cpf = IF Provided(data.cpf) THEN data.cpf ELSE base.cpf
        /\ merged.tv = IfNone(data.total_vencimentos, base.total_vencimentos)
        /\ merged.td = IfNone(data.total_descontos, base.total_descontos)
        /\ merged.liquido = IfNone(data.valor_liquido, base.liquido)
        /\ merged.eventos = IF data.eventos.islist /\ data.eventos.items # <<>>
                            THEN data.eventos.items ELSE base.eventos

\* both sides provide a name, a total and events: the oracle's name, its total
\* of zero and its events are kept, its empty competence is not
C15_Witness ==
    /\ ppc \in {"refine", "done"}
    /\ NotNone(base.nome) /\ Provided(data.nome) /\ merged.nome = data.nome
    /\ NotNone(base.competencia) /\ data.competencia = Some(<<>>)
    /\ merged.comp = base.competencia
    /\ NotNone(base.total_vencimentos) /\ data.total_vencimentos = Some(0)
    /\ merged.tv = Some(0)
    /\ base.eventos # <<>> /\ Len(data.eventos.items) = 2
    /\ merged.eventos = data.eventos.items

\* ------------------------------------------ claims on the processing script
\* C13: after a batch is processed the output holds exactly one row per
\* employee record emitted by the extractor, in the extractor's order,
\* whatever is computed for each employee.
C13_OneRowPerEmployee ==
    bpc = "raised" =>
        /\ Len(batch_rows) = Len(colabs)
        /\ \A i \in 1..Len(colabs) : batch_rows[i].nome = colabs[i].nome

\* the days of the first base-salary event whose reference quantity parses,
\* 30 when there is none, in hundredths of a day
reference_days == Val(Gathered(colab.eventos).ref_base_dias)

\* C14: whenever the reference gross is non-null, payable = max(0, gross *
\* (reference_days / 30) + other earnings - advance - withholding - other
\* deductions): other earnings are the earnings outside the base-salary codes,
\* the advance the deductions under 981, the withholding the deductions under
\* 998/821, the other deductions all the remaining ones, and reference_days the
\* base-salary event's reference quantity, 30 when absent or unparsable.
C14_PayableFormula ==
    (apc = "done" /\ NotNone(bruto_ref)) =>
        valor_a_pagar =
            Some(PosPart((Val(bruto_ref) * reference_days) \div 3000
                         + SumWhere(colab.eventos, "provento", AppCodes \ SALARIO_BASE)
                         - SumWhere(colab.eventos, "desconto", {"981"})
                         - SumWhere(colab.eventos, "desconto", INSS_CODES)
                         - SumWhere(colab.eventos, "desconto",
                                    AppCodes \ ({"981"} \cup INSS_CODES))))

RowsWithName(a) == {i \in 1..Len(df) : df[i].NOME_NORM = a}
\* a row was selected on the equality of the normalized names: no id step
\* succeeded and the score is the 1.0 that only equal names reach
SelectedByExactName ==
    /\ mpc = "done" /\ ~ById
    /\ match_out.match_score = Some(<<1, 1>>)

\* C16: a row is selected by an exact normalized-name match with score 1.0
\* only if exactly one row's normalized name equals the normalized input name;
\* when two or more rows carry that name, no row is selected by such a match.
C16_ExactNameOnlyWhenUnique ==
    SelectedByExactName => Cardinality(RowsWithName(a_in)) = 1

\* the score q is at most 0.04 below the score p
Within004(p, q) == 100 * (p[1] * q[2] - q[1] * p[2]) <= 4 * p[2] * q[2]
\* the candidates are the rows of positive score, highest first, at most 12
CandidatesAreTop12(a) ==
    /\ Len(cands) <= 12
    /\ \A k \in 1..Len(cands) :
          /\ cands[k].s = ScoreOfRow(a, cands[k].idx)
          /\ \A i \in 1..Len(df) :
                RatLt(cands[k].s, ScoreOfRow(a, i)) => \E m \in 1..(k - 1) : cands[m].idx = i
    /\ Len(cands) < 12 =>
          \A i \in 1..Len(df) :
              RatLt(<<0, 1>>, ScoreOfRow(a, i)) => \E k \in 1..Len(cands) : cands[k].idx = i

\* C18: with an oracle supplied, no id step succeeding and a best fuzzy score
\* of at least 0.70, the oracle is invoked whenever the best score is below
\* the confident threshold or another row's score is within 0.04 of the best,
\* and the candidates offered are the at most 12 highest-scoring rows.
C18_OracleInvokedWhenUnsure ==
    (mpc = "done" /\ gpt_match_fn /\ ~ById) =>
        LET a == a_in
            bst == best_fuzzy(df, a)
        IN  (~BelowMin(bst)
             /\ (\/ RatLt(Val(bst)[2], gpt_trigger_score)
                 \/ \E j \in 1..Len(df) :
                       j # Val(bst)[1] /\ Within004(Val(bst)[2], ScoreOfRow(a, j)))) =>
                (oracle_calls = 1 /\ CandidatesAreTop12(a))

\* the candidates whose name equals the oracle's answer, case and surrounding
\* whitespace set aside
Offered ==
    IF IsNone(picked) THEN {}
    ELSE {k \in 1..Len(cands) : upper(strip(cands[k].name)) = upper(strip(Val(picked)))}

\* C19: when the oracle was invoked, its answer is adopted exactly when it
\* equals the name of an offered candidate (case-insensitive, surrounding
\* whitespace ignored): the result is then that candidate's row with a score of
\* at least 0.95 and the oracle-disambiguation method; for any other answer
\* (null, empty, a name not offered) the result is the fuzzy best row with its
\* fuzzy score and the fuzzy method.
C19_OracleAnswerAdoptedIfOffered ==
    (mpc = "done" /\ oracle_calls = 1) =>
        IF Offered # {}
        THEN /\ \E k \in Offered :
                  /\ match_out.bruto_referencial = df[cands[k].idx].BRUTO
                  /\ match_out.match_nome_planilha = Some(strip(cands[k].name))
             /\ ~RatLt(Val(match_out.match_score), Rat(95, 100))
             /\ Metodo = Some("gpt_disambiguation")
        ELSE LET bst == best_fuzzy(df, a_in)
             IN  match_out = RowResult(df[Val(bst)[1]], Val(bst)[2],
                                       df[Val(bst)[1]].NOME_COL, "local_fuzzy")

\* the answer " b a" names the candidate "B A", which is not the fuzzy best
\* row, and that candidate's row is returned
C19_Witness ==
    /\ mpc = "done" /\ oracle_calls = 1
    /\ picked = Some(<<" ","b"," ","a">>)
    /\ \E k \in Offered :
          /\ cands[k].idx # Val(pending)[1]
          /\ match_out.bruto_referencial = df[cands[k].idx].BRUTO
    /\ Metodo = Some("gpt_disambiguation")

\* ------------------------------------------------ claims on _norm_nome
\* C17: _norm_nome is idempotent: normalizing the normalized string gives the
\* same string.
C17_NormNomeIdempotent ==
    npc = "twice" => norm_twice = norm_once

\* the first call turned "é.a" into "E A", and the second call left it so
C17_Witness ==
    /\ npc = "twice"
    /\ s_arg = Some(<<"é", ".", "a">>)
    /\ norm_once = <<"E", " ", "A">>
    /\ norm_twice = <<"E", " ", "A">>

\* ------------------------------------------------ claims on _score_name
\* neither name empty, the names not equal, neither a substring of the other
TokenOverlapBranch(a, b) ==
    a # <<>> /\ b # <<>> /\ a # b /\ ~IsSubstr(a, b) /\ ~IsSubstr(b, a)
\* the Jaccard similarity of the token sets, as <<intersection, union>> reduced
Jaccard(a, b) ==
    Rat(Cardinality(Range(tokens(a)) \cap Range(tokens(b))),
        Cardinality(Range(tokens(a)) \cup Range(tokens(b))))
FirstTokensMatch(a, b) == tokens(a)[1] = tokens(b)[1]
LastTokensMatch(a, b) == tokens(a)[Len(tokens(a))] = tokens(b)[Len(tokens(b))]

\* C20: in the token-overlap branch of _score_name, of two rows with the same
\* Jaccard value against the name and the same first-token status, the row
\* whose last token matches the name's scores strictly higher than the row
\* whose last token differs.
C20_LastTokenBonus ==
    (/\ spc = "done"
     /\ TokenOverlapBranch(sn_a, sn_b) /\ TokenOverlapBranch(sn_a, sn_c)
     /\ Jaccard(sn_a, sn_b) = Jaccard(sn_a, sn_c)
     /\ FirstTokensMatch(sn_a, sn_b) <=> FirstTokensMatch(sn_a, sn_c)
     /\ LastTokensMatch(sn_a, sn_b) /\ ~LastTokensMatch(sn_a, sn_c)) =>
        RatLt(score_ac, score_ab)

\* a token of three or four digits
IsCodeToken(tok) == Len(tok) \in {3, 4} /\ AllDigits(tok)

\* C21: within the events table a line gives an event if and only if it
\* starts with a 3-4 digit code token and, having at least 4 tokens, ends in a
\* monetary token: a line of at least 4 tokens ending in a monetary token whose
\* first token is not a 3-4 digit number produces no event.
C21_EventIffCodeLine ==
    (gpc = "done" /\ OneTableLine) =>
        LET toks == text[2]
        IN  (guess_out # <<>>) <=>
                (/\ Len(toks) >= 4
                 /\ IsMoney(toks[Len(toks)])
                 /\ IsCodeToken(toks[1]))

\* a line of at least 4 tokens that ends in two monetary tokens, the token
\* before them being a time or a monetary number: two amounts are kept
TwoAmountsLine(toks) ==
    /\ Len(toks) >= 4
    /\ IsMoney(toks[Len(toks)]) /\ IsMoney(toks[Len(toks) - 1])
    /\ is_ref_token(toks[Len(toks) - 2])
\* the amount of a column, a zero standing for an empty column
Column(tok) == NonZero(parse_money_any(tok))
HintedEvent(e) == desconto_hint(e.codigo, upper(e.descricao))

\* C22 (as stated): when a line keeps two monetary amounts after the
\* reference is taken, the first is the event's earning and the second its
\* deduction, whatever the code and the description.
C22_TwoAmountsByPosition ==
    (gpc = "done" /\ OneTableLine /\ TwoAmountsLine(text[2])) =>
        LET toks == text[2]
            n == Len(toks)
        IN  /\ Len(guess_out) = 1
            /\ guess_out[1].provento = Column(toks[n - 1])
            /\ guess_out[1].desconto = Column(toks[n])

\* C22 (amended): when a line keeps two monetary amounts, the second is the
\* event's deduction; the first is its earning unless the code or the
\* description gives a deduction hint, in which case the earning is null and
\* the first amount is dropped.
C22_TwoAmountsByPositionUnlessHint ==
    (gpc = "done" /\ OneTableLine /\ TwoAmountsLine(text[2])) =>
        LET toks == text[2]
            n == Len(toks)
        IN  /\ Len(guess_out) = 1
            /\ guess_out[1].provento =
                 IF HintedEvent(guess_out[1]) THEN None ELSE Column(toks[n - 1])
            /\ guess_out[1].desconto = Column(toks[n])

\* the line "981 DESC 5:38 1.518,00 1.518,00" gave a deduction of 1518.00 and
\* no earning
C22_Witness ==
    /\ gpc = "done" /\ OneTableLine
    /\ text[2] = << <<"9","8","1">>, <<"D","E","S","C">>, <<"5",":","3","8">>,
                    <<"1",".","5","1","8",",","0","0">>,
                    <<"1",".","5","1","8",",","0","0">> >>
    /\ Len(guess_out) = 1
    /\ guess_out[1].provento = None /\ guess_out[1].desconto = Some(151800)

\* ------------------------------------- claims on the reconciler (continued)
\* the event carries one amount only: Some(v) is that amount, None otherwise
SingleAmount(e) ==
    IF NotNone(e.provento) /\ IsNone(e.desconto) THEN e.provento
    ELSE IF IsNone(e.provento) /\ NotNone(e.desconto) THEN e.desconto
    ELSE None
DescHasKeyword(e) == HasKeyword(upper(strip(e.descricao)))

Classified == ForcedClassification(eventos)
\* no forced hint, no deduction keyword, exactly one non-null amount
InAmbiguousSet(e) ==
    /\ CODE_HINT(e.codigo) = ""
    /\ ~DescHasKeyword(e)
    /\ NotNone(SingleAmount(e))

\* C24: the search changes only ambiguous events.  The ambiguous set holds
\* exactly the events that after step 1 have no forced hint, no deduction
\* keyword and exactly one non-null amount; every other event leaves with the
\* amounts step 1 gave it, whatever the declared totals; with both declared
\* totals null no event is flipped.
C24_OnlyAmbiguousFlipped ==
    (rpc \in {"search", "done"} /\ eventos # <<>>) =>
        LET cl == Classified
            amb == {i \in 1..Len(eventos) : InAmbiguousSet(cl[i])}
        IN  /\ Len(cl) = Len(eventos)
            /\ Range(ambiguous_idx) = amb
            /\ \A i \in 1..Len(eventos) : i \notin amb => out[i] = cl[i]
            /\ ~TotalsGiven => out = cl

\* the search flipped the ambiguous second event and left the first one, which
\* carries a single amount under a forced code, as step 1 gave it
C24_Witness ==
    /\ rpc = "done" /\ TotalsGiven /\ Len(eventos) = 2
    /\ ~InAmbiguousSet(Classified[1]) /\ NotNone(SingleAmount(Classified[1]))
    /\ InAmbiguousSet(Classified[2])
    /\ out[1] = Classified[1] /\ out[2] # Classified[2]

\* C25: the search terminates for every ledger and every pair of declared
\* totals: a call of _post_process_eventos that keeps running reaches its
\* return.
C25_SearchTerminates == <>(rpc = "done")

\* the loop ran a pass that flipped an event and then a pass without a flip,
\* after which the function returned
C25_Witness ==
    /\ rpc = "done" /\ TotalsGiven /\ ~improved
    /\ out # Classified

\* the ledger with the single amount of event i moved to the other column
FlipAt(evs, i) ==
    [evs EXCEPT ![i] = [@ EXCEPT !.provento = evs[i].desconto,
                                 !.desconto = evs[i].provento]]
\* the number of events two ledgers of the same length differ in
Flips(a, b) == Cardinality({i \in 1..Len(a) : a[i] # b[i]})

\* C26: at the return of a call with at least one declared total, no single
\* flip of an ambiguous event lowers the objective by more than one cent (the
\* result is a local optimum of the search); and every pass of the search that
\* flipped events lowered the objective by more than one cent per flip.
C26_LocalOptimumAtReturn ==
    /\ []((rpc = "done" /\ TotalsGiven) =>
            \A i \in 1..Len(out) :
                InAmbiguousSet(Classified[i]) =>
                    ~(Mismatch(FlipAt(out, i)) + 1 < Mismatch(out)))
    /\ [][(rpc = "search" /\ out' # out) =>
            Mismatch(out)' + Flips(out, out') < Mismatch(out)]_vars

\* the search flipped the first event and returned with the ambiguous second
\* event in the column step 1 gave it
C26_Witness ==
    /\ rpc = "done" /\ TotalsGiven /\ Len(eventos) = 2
    /\ InAmbiguousSet(Classified[1]) /\ InAmbiguousSet(Classified[2])
    /\ out[1] # Classified[1] /\ out[2] = Classified[2]

\* ---------------- claims on parse_recibo_pagamento_pdf (continued)
\* the events of the page as the reconciliation left them before any
\* refinement, and their mismatch against the merged totals
PreRefinement == post_process_eventos(merged.eventos, merged.tv, merged.td)
PreMismatch == page_mismatch(PreRefinement, merged.tv, merged.td)
\* the refinement request was answered (by a failure or by an object)
RefinementAnswered == refine_outcome.kind # "not_called"

\* C27: per page the refinement request is issued at most once, and only with
\* use_gpt set, a declared total at hand and a mismatch after reconciliation
\* above 2.0; once it has answered, the page's events and totals are other
\* than the pre-refinement ones only if the mismatch of the reconciled refined
\* result is strictly lower than the mismatch before, and otherwise the page
\* is recorded with its pre-refinement events and totals.
C27_RefinedAdoptedOnlyIfLower ==
    /\ refine_calls <= 1
    /\ refine_calls = 1 =>
          /\ use_gpt
          /\ NotNone(merged.tv) \/ NotNone(merged.td)
          /\ PreMismatch > 200
    /\ RefinementAnswered =>
          /\ ppc = "done" /\ ~raised
          /\ results = <<PageRecord(merged, pg_eventos, pg_tv, pg_td)>>
          /\ \/ /\ pg_eventos = PreRefinement
                /\ pg_tv = merged.tv /\ pg_td = merged.td
             \/ page_mismatch(pg_eventos, pg_tv, pg_td) < PreMismatch

\* ------------------------------------- claims on the reconciler (continued)
\* the one amount of the event that is neither null nor zero: Some(v) when
\* exactly one column holds such an amount, None otherwise
LoneNonZero(e) ==
    IF NotNone(NonZero(e.provento)) /\ IsNone(NonZero(e.desconto)) THEN e.provento
    ELSE IF IsNone(NonZero(e.provento)) /\ NotNone(NonZero(e.desconto)) THEN e.desconto
    ELSE None

\* C28: _post_process_eventos only moves single amounts between columns.  The
\* returned list has the length and order of the input, with code, description
\* and reference of every event unchanged, and every input event that carries
\* exactly one amount v that is neither null nor zero leaves with exactly one
\* non-null amount, equal to v.
C28_SingleAmountOnlyMoves ==
    rpc = "done" =>
        /\ Len(out) = Len(eventos)
        /\ \A i \in 1..Len(eventos) :
              /\ out[i].codigo = eventos[i].codigo
              /\ out[i].descricao = eventos[i].descricao
              /\ out[i].referencia = eventos[i].referencia
              /\ NotNone(LoneNonZero(eventos[i])) =>
                    SingleAmount(out[i]) = LoneNonZero(eventos[i])

\* C29: _post_process_eventos is idempotent for fixed declared totals.  Applied
\* to the ledger it returned, with the same total_venc and total_desc, it
\* returns a ledger with the same earning and the same deduction on every
\* event.
C29_ReconcileIdempotent ==
    rpc = "done" =>
        LET again == post_process_eventos(out, total_venc, total_desc)
        IN  /\ Len(again) = Len(out)
            /\ \A i \in 1..Len(out) :
                  /\ again[i].provento = out[i].provento
                  /\ again[i].desconto = out[i].desconto

\* ------------------------------------------ claims on _regex_guess (continued)
\* line i of the text is a table header, a totals/net line
HeaderAt(i) == text[i] # <<>> /\ IsHeaderLine(text[i])
TotalsAt(i) == text[i] # <<>> /\ ~IsHeaderLine(text[i]) /\ IsTotalsLine(text[i])
\* line i lies after a header with no totals/net line in between
InsideTable(i) ==
    \E h \in 1..(i - 1) : HeaderAt(h) /\ \A k \in (h + 1)..(i - 1) : ~TotalsAt(k)
\* line i lies inside a table and reads as an event
EventAt(i) ==
    /\ text[i] # <<>> /\ ~HeaderAt(i) /\ ~TotalsAt(i)
    /\ InsideTable(i)
    /\ NotNone(ParseLine(text[i]))
\* line j closes a table copy that has yielded an event
ClosesCopyAt(j) == TotalsAt(j) /\ InsideTable(j) /\ \E i \in 1..(j - 1) : EventAt(i)
\* line i is, or lies after, a header that follows such a closed copy
InLaterCopy(i) ==
    \E k \in 1..i : HeaderAt(k) /\ \E j \in 1..(k - 1) : ClosesCopyAt(j)
\* the events of the lines from i on that the claim lets through
RECURSIVE CollectedFrom(_)
CollectedFrom(i) ==
    IF i > Len(text) THEN <<>>
    ELSE (IF EventAt(i) /\ ~InLaterCopy(i) THEN <<Val(ParseLine(text[i]))>> ELSE <<>>)
         \o CollectedFrom(i + 1)

\* C30: the scanner collects events only from lines between a table header
\* and the next totals/net line; once a table copy that yielded an event has
\* been closed, the next header stops the scan, so that no line of a later
\* copy gives an event; a closed table without events does not stop the scan.
\* The events collected are exactly those of the event lines inside a table
\* that lie before such a header, in the order of the lines.
C30_FirstCopyOnly ==
    gpc = "done" => guess_eventos = CollectedFrom(1)

\* a header, an event line and a totals line, then a second header followed by
\* a line that reads as an event: one event collected
C30_Witness ==
    /\ gpc = "done" /\ Len(text) = 5
    /\ HeaderAt(1) /\ EventAt(2) /\ ClosesCopyAt(3) /\ HeaderAt(4)
    /\ EventAt(5) /\ InLaterCopy(5)
    /\ Len(guess_eventos) = 1

====
